---- MODULE Spec2Model ----
(***************************************************************************)
(* A model of the automata core of SimuladorAutomato: the NFA/DFA engine   *)
(* (src/core/automato.py), the pushdown automaton (src/core/pilha.py) and  *)
(* the Moore machine (src/core/maquina_moore.py).                          *)
(*                                                                         *)
(* Every object is a record of its Python fields.  A Python string is a   *)
(* TLA+ string (TLC evaluates Len, SubSeq and \o on strings), a Python set *)
(* is a set, and a dict is a function whose DOMAIN is the dict's key set.  *)
(* A method is an operator from the object (and the arguments) to the      *)
(* object after the call; a method that can raise has a companion          *)
(* operator <name>_raises.                                                 *)
(***************************************************************************)
EXTENDS Integers, Sequences, FiniteSets, TLC

VARIABLES
    kind,    \* which editor owns the session: "automato", "pilha" or "moore"
    aut,     \* the Automato object
    pda,     \* the AutomatoPilha object
    moore,   \* the MaquinaMoore object
    pre,     \* the edited object as it was when the last call started
    ret,     \* the last call: its name, arguments, whether it raised, its value
    gui      \* the editor window: positions, undo_stack and redo_stack

vars == <<kind, aut, pda, moore, pre, ret, gui>>

\* the fields of an editor window that was never opened
NoGui == [positions |-> <<>>, undo_stack |-> <<>>, redo_stack |-> <<>>]

(***************************************************************************)
(* Universes of the inputs.  State names never use the name minimize()     *)
(* reserves for its trap state.                                            *)
(***************************************************************************)
StateNames == {"q0", "q1"}
Symbols == {"a", "ab", "&"}
NoArgs == <<>>

\* iteration orders of a set of symbols: one order and its reverse
SymOrders == {<<"a", "b", "ab", "&">>, <<"&", "ab", "b", "a">>}

\* the most destinations (src, symbol, dst) an edited structure may hold
MaxTrans == 2

EPSILON == "&"

\* Python's None, as the value of start_state
None == "<None>"

\* Python's None, where an automaton is returned otherwise
NoAutomato == [none |-> TRUE]

(***************************************************************************)
(* Automato (src/core/automato.py)                                         *)
(***************************************************************************)
Automato ==
    [states |-> {}, start_state |-> None, final_states |-> {},
     transitions |-> <<>>, alphabet |-> {}]

\* the characters of a string, as iterating over it yields them
Chars(str) == {SubSeq(str, i, i) : i \in 1..Len(str)}

\* dict.get(key, set())
Get(d, key) == IF key \in DOMAIN d THEN d[key] ELSE {}

\* d with d[key] = value (the key is created when absent)
Put(d, key, value) ==
    [k \in DOMAIN d \cup {key} |-> IF k = key THEN value ELSE d[k]]

\* d without key
Del(d, key) == [k \in DOMAIN d \ {key} |-> d[k]]

\* the transitions of an object as a set of tuples
Triples(A) ==
    UNION {{<<k[1], k[2], d>> : d \in A.transitions[k]} :
                k \in DOMAIN A.transitions}

\* the number of destinations held by all keys
NumTrans(A) ==
    Cardinality({t \in (DOMAIN A.transitions) \X A.states :
                    t[2] \in A.transitions[t[1]]})

add_state(A, state, is_start, is_final) ==
    [A EXCEPT
        !.states = @ \cup {state},
        !.start_state = IF is_start \/ A.start_state = None THEN state ELSE @,
        !.final_states = IF is_final THEN @ \cup {state} ELSE @]

add_transition_raises(A, src, dst) ==
    src \notin A.states \/ dst \notin A.states

\* add_transition with the alphabet updated before the states are checked
add_transition_alphabet_first(A, src, symbol, dst) ==
    LET B == [A EXCEPT
                !.alphabet = IF symbol # EPSILON THEN @ \cup {symbol} ELSE @]
    IN IF add_transition_raises(A, src, dst) THEN B
       ELSE [B EXCEPT
                !.transitions =
                    Put(@, <<src, symbol>>, Get(@, <<src, symbol>>) \cup {dst})]

add_transition(A, src, symbol, dst) ==
    IF add_transition_raises(A, src, dst) THEN A
    ELSE [A EXCEPT
            !.alphabet = IF symbol # EPSILON THEN @ \cup {symbol} ELSE @,
            !.transitions =
                Put(@, <<src, symbol>>, Get(@, <<src, symbol>>) \cup {dst})]

\* remove_state that forgets the final-state flag
remove_state_keeps_final(A, state_to_remove) ==
    IF state_to_remove \notin A.states THEN A
    ELSE LET kept == {k \in DOMAIN A.transitions :
                        /\ k[1] # state_to_remove
                        /\ A.transitions[k] \ {state_to_remove} # {}}
         IN [A EXCEPT
                !.states = @ \ {state_to_remove},
                !.start_state = IF @ = state_to_remove THEN None ELSE @,
                !.transitions =
                    [k \in kept |-> A.transitions[k] \ {state_to_remove}]]

remove_state(A, state_to_remove) ==
    IF state_to_remove \notin A.states THEN A
    ELSE LET kept == {k \in DOMAIN A.transitions :
                        /\ k[1] # state_to_remove
                        /\ A.transitions[k] \ {state_to_remove} # {}}
         IN [A EXCEPT
                !.states = @ \ {state_to_remove},
                !.start_state = IF @ = state_to_remove THEN None ELSE @,
                !.final_states = @ \ {state_to_remove},
                !.transitions =
                    [k \in kept |-> A.transitions[k] \ {state_to_remove}]]

\* rename_state with self.states.remove(old_name) ahead of the two tests,
\* up to the point where a refused call raises
rename_state_removes_first(A, old_name, new_name) ==
    [A EXCEPT !.states = @ \ {old_name}]

rename_state_raises(A, old_name, new_name) ==
    \/ old_name \notin A.states
    \/ (new_name \in A.states /\ new_name # old_name)

\* The loop assigns new_transitions[(new_src, sym)] once per old key; two old
\* keys map to one new key only when new_name is already a source, which the
\* second check excludes unless new_name = old_name.
rename_state(A, old_name, new_name) ==
    IF rename_state_raises(A, old_name, new_name) THEN A
    ELSE LET ren(s) == IF s = old_name THEN new_name ELSE s
             newkeys == {<<ren(k[1]), k[2]>> : k \in DOMAIN A.transitions}
             oldkey(nk) == CHOOSE k \in DOMAIN A.transitions :
                              <<ren(k[1]), k[2]>> = nk
         IN [A EXCEPT
                !.states = (@ \ {old_name}) \cup {new_name},
                !.start_state = IF @ = old_name THEN new_name ELSE @,
                !.final_states = IF old_name \in @
                                 THEN (@ \ {old_name}) \cup {new_name} ELSE @,
                !.transitions =
                    [nk \in newkeys |->
                        {ren(d) : d \in A.transitions[oldkey(nk)]}]]

\* remove_transition without "del self.transitions[key]"
remove_transition_keeps_key(A, src, symbol, dst) ==
    LET key == <<src, symbol>> IN
    IF key \in DOMAIN A.transitions
    THEN [A EXCEPT !.transitions = Put(@, key, A.transitions[key] \ {dst})]
    ELSE A

remove_transition(A, src, symbol, dst) ==
    LET key == <<src, symbol>> IN
    IF key \in DOMAIN A.transitions
    THEN IF A.transitions[key] \ {dst} = {}
         THEN [A EXCEPT !.transitions = Del(@, key)]
         ELSE [A EXCEPT !.transitions = Put(@, key, A.transitions[key] \ {dst})]
    ELSE A

(***************************************************************************)
(* Automato: simulation                                                    *)
(***************************************************************************)
\* the loop without stack.append(nxt): the states one epsilon move away
closure_loop_no_push(A, closure, stack) ==
    closure \cup UNION {Get(A.transitions, <<s, EPSILON>>) : s \in stack}

RECURSIVE closure_loop(_, _, _)
\* the while loop of epsilon_closure: a state is pushed when it enters the
\* closure, so the stack never holds a state twice and is kept as a set
closure_loop(A, closure, stack) ==
    IF stack = {} THEN closure
    ELSE LET state == CHOOSE s \in stack : TRUE
             new == Get(A.transitions, <<state, EPSILON>>) \ closure
         IN closure_loop(A, closure \cup new, (stack \ {state}) \cup new)

epsilon_closure(A, states) == closure_loop(A, states, states)

move(A, states, symbol) ==
    UNION {Get(A.transitions, <<s, symbol>>) : s \in states}

\* input_str[input_idx:]
Suffix(str, idx) == SubSeq(str, idx + 1, Len(str))

\* str.startswith(prefix) that compares the first character only
StartsWith_first_char(str, prefix) ==
    Len(str) >= 1 /\ Len(prefix) >= 1
    /\ SubSeq(str, 1, 1) = SubSeq(prefix, 1, 1)

\* str.startswith(prefix)
StartsWith(str, prefix) ==
    Len(prefix) <= Len(str) /\ SubSeq(str, 1, Len(prefix)) = prefix

\* list(symbols): the members in the order the set iterates, given as a
\* sequence ranking every symbol
ListOf(symbols, order) == SelectSeq(order, LAMBDA x : x \in symbols)

RECURSIVE ByLenFrom(_, _)
ByLenFrom(list, n) ==
    IF n < 0 THEN <<>>
    ELSE SelectSeq(list, LAMBDA x : Len(x) = n) \o ByLenFrom(list, n - 1)

RECURSIVE ByLenUpTo(_, _, _)
ByLenUpTo(list, n, max) ==
    IF n > max THEN <<>>
    ELSE SelectSeq(list, LAMBDA x : Len(x) = n) \o ByLenUpTo(list, n + 1, max)

MaxLenOf(list) ==
    IF list = <<>> THEN 0
    ELSE CHOOSE n \in {Len(list[i]) : i \in 1..Len(list)} :
            \A i \in 1..Len(list) : Len(list[i]) <= n

\* sorted(list, key=len) without reverse=True: shortest first
SortedByLen_ascending(list) == ByLenUpTo(list, 0, MaxLenOf(list))

\* the list left in the order of the set, not sorted
SortedByLen_unsorted(list) == list

\* sorted(list, key=len, reverse=True): longest first, equal lengths in the
\* order of the list (the sort is stable)
SortedByLen(list) == ByLenFrom(list, MaxLenOf(list))

RECURSIVE TryCandidates(_, _, _, _, _)
\* the for loop over sorted_symbols: next_states_set is not reset between
\* symbols, and a symbol is taken only if the set is then non-empty
TryCandidates(A, current_states, remaining_input, sorted_symbols, next_states_set) ==
    IF sorted_symbols = <<>>
    THEN [consumed_input |-> FALSE, next_states_set |-> next_states_set,
          advance |-> 0]
    ELSE LET symbol == Head(sorted_symbols) IN
         IF StartsWith(remaining_input, symbol)
         THEN LET updated == next_states_set
                                \cup move(A, current_states, symbol)
              IN IF updated # {}
                 THEN [consumed_input |-> TRUE, next_states_set |-> updated,
                       advance |-> Len(symbol)]
                 ELSE TryCandidates(A, current_states, remaining_input,
                                    Tail(sorted_symbols), updated)
         ELSE TryCandidates(A, current_states, remaining_input,
                            Tail(sorted_symbols), next_states_set)

\* acceptance that forgets the cursor
Accepted_ignores_cursor(A, input_str, input_idx, current_states) ==
    current_states \cap A.final_states # {}

\* accepted = (input_idx == len(input_str)) and any(final in current_states)
Accepted(A, input_str, input_idx, current_states) ==
    input_idx = Len(input_str) /\ current_states \cap A.final_states # {}

RECURSIVE simulate_loop(_, _, _, _, _, _)
\* the main while loop of simulate_history
simulate_loop(A, input_str, order, current_states, input_idx, history) ==
    IF input_idx < Len(input_str)
    THEN LET possible_symbols ==
                {k[2] : k \in {k \in DOMAIN A.transitions :
                                k[1] \in current_states /\ k[2] # EPSILON}}
             sorted_symbols == SortedByLen(ListOf(possible_symbols, order))
             try == TryCandidates(A, current_states,
                                  Suffix(input_str, input_idx),
                                  sorted_symbols, {})
         IN IF ~try.consumed_input
            THEN [history |-> history,
                  accepted |-> Accepted(A, input_str, input_idx,
                                        current_states)]
            ELSE LET new_idx == input_idx + try.advance
                     new_states == epsilon_closure(A, try.next_states_set)
                     new_history == Append(history, <<new_states, new_idx>>)
                 IN IF new_states = {}
                    THEN [history |-> new_history,
                          accepted |-> Accepted(A, input_str, new_idx,
                                                new_states)]
                    ELSE simulate_loop(A, input_str, order, new_states,
                                       new_idx, new_history)
    ELSE [history |-> history,
          accepted |-> Accepted(A, input_str, input_idx, current_states)]

simulate_history(A, input_str, order) ==
    IF A.start_state = None THEN [history |-> <<>>, accepted |-> FALSE]
    ELSE LET current_states == epsilon_closure(A, {A.start_state}) IN
         IF input_str = ""
         THEN [history |-> <<<<current_states, 0>>>>,
               accepted |-> current_states \cap A.final_states # {}]
         ELSE simulate_loop(A, input_str, order, current_states, 0,
                            <<<<current_states, 0>>>>)

simulate(A, input_str, order) == simulate_history(A, input_str, order).accepted

(***************************************************************************)
(* Automato: validation, subset construction, minimization                 *)
(***************************************************************************)
\* is_dfa as it was before multi-character symbols were rejected
is_dfa_accepts_long_symbols(A) ==
    \A k \in DOMAIN A.transitions :
        Cardinality(A.transitions[k]) = 1 /\ k[2] # EPSILON

is_dfa(A) ==
    \A k \in DOMAIN A.transitions :
        /\ ~(Cardinality(A.transitions[k]) # 1)
        /\ ~(k[2] = EPSILON)
        /\ ~(Len(k[2]) > 1)

\* the symbols of the alphabet taken whole
single_char_alphabet_whole_symbols(A) == A.alphabet

\* for sym in self.alphabet: for char in sym
single_char_alphabet(A) == UNION {Chars(sym) : sym \in A.alphabet}

\* f"q{count}"
QName(count) ==
    <<"q0", "q1", "q2", "q3", "q4", "q5", "q6", "q7", "q8", "q9", "q10",
      "q11", "q12", "q13", "q14", "q15">>[count + 1]

\* state_map[T]: the i-th subset found is named q{i-1}
DfaName(state_map, T) ==
    QName((CHOOSE i \in 1..Len(state_map) : state_map[i] = T) - 1)

\* the loop body with U = move(T, sym), without the epsilon-closure
to_dfa_symbol_no_closure(A, st, T, sym) ==
    IF sym = EPSILON THEN st
    ELSE LET U == move(A, T, sym) IN
         IF U = {} THEN st
         ELSE LET found ==
                    IF \E i \in 1..Len(st.state_map) : st.state_map[i] = U
                    THEN st
                    ELSE [state_map |-> Append(st.state_map, U),
                          dfa |-> add_state(st.dfa, QName(st.count), FALSE,
                                            U \cap A.final_states # {}),
                          unmarked |-> Append(st.unmarked, U),
                          count |-> st.count + 1]
              IN [found EXCEPT
                    !.dfa = add_transition(@, DfaName(found.state_map, T), sym,
                                           DfaName(found.state_map, U))]

\* the body of "for sym in single_char_alphabet" for the subset T
to_dfa_symbol(A, st, T, sym) ==
    IF sym = EPSILON THEN st
    ELSE LET U == epsilon_closure(A, move(A, T, sym)) IN
         IF U = {} THEN st
         ELSE LET found ==
                    IF \E i \in 1..Len(st.state_map) : st.state_map[i] = U
                    THEN st
                    ELSE [state_map |-> Append(st.state_map, U),
                          dfa |-> add_state(st.dfa, QName(st.count), FALSE,
                                            U \cap A.final_states # {}),
                          unmarked |-> Append(st.unmarked, U),
                          count |-> st.count + 1]
              IN [found EXCEPT
                    !.dfa = add_transition(@, DfaName(found.state_map, T), sym,
                                           DfaName(found.state_map, U))]

RECURSIVE to_dfa_symbols(_, _, _, _)
to_dfa_symbols(A, st, T, syms) ==
    IF syms = <<>> THEN st
    ELSE to_dfa_symbols(A, to_dfa_symbol(A, st, T, Head(syms)), T, Tail(syms))

RECURSIVE to_dfa_loop(_, _, _)
\* while unmarked: T = unmarked.popleft() ...
to_dfa_loop(A, st, syms) ==
    IF st.unmarked = <<>> THEN st.dfa
    ELSE to_dfa_loop(A,
            to_dfa_symbols(A, [st EXCEPT !.unmarked = Tail(@)],
                           Head(st.unmarked), syms),
            syms)

\* to_dfa without the test of the start state
to_dfa_never_none(A) == FALSE

to_dfa_returns_none(A) == A.start_state = None

\* to_dfa that never makes the start subset a final state
to_dfa_start_never_final(A, order) ==
    LET start_closure == epsilon_closure(A, {A.start_state})
    IN to_dfa_loop(A,
            [state_map |-> <<start_closure>>,
             dfa |-> add_state(Automato, "q0", TRUE, FALSE),
             unmarked |-> <<start_closure>>,
             count |-> 1],
            ListOf(single_char_alphabet(A), order))

\* the automaton to_dfa returns for a start state that is set; order is the
\* iteration order of single_char_alphabet
to_dfa(A, order) ==
    LET start_closure == epsilon_closure(A, {A.start_state})
    IN to_dfa_loop(A,
            [state_map |-> <<start_closure>>,
             dfa |-> add_state(Automato, "q0", TRUE,
                               start_closure \cap A.final_states # {}),
             unmarked |-> <<start_closure>>,
             count |-> 1],
            ListOf(single_char_alphabet(A), order))

error_state_name == "_error"

\* the (state, symbol) pairs with no transition
Incomplete(A) ==
    {m \in A.states \X single_char_alphabet(A) :
        Get(A.transitions, m) = {}}

RECURSIVE make_complete_loop(_, _)
make_complete_loop(A, missing) ==
    IF missing = {} THEN A
    ELSE LET m == CHOOSE x \in missing : TRUE
         IN make_complete_loop(add_transition(A, m[1], m[2], error_state_name),
                               missing \ {m})

\* _make_complete: self after the call
make_complete(A) ==
    IF Incomplete(A) # {}
    THEN LET withError == add_state(A, error_state_name, FALSE, FALSE)
         IN make_complete_loop(withError, Incomplete(withError))
    ELSE A

\* Y in W
InList(x, list) == \E i \in 1..Len(list) : list[i] = x

\* W.remove(Y): the first occurrence
ListRemove(list, x) ==
    LET i == CHOOSE j \in 1..Len(list) :
                list[j] = x /\ \A h \in 1..(j - 1) : list[h] # x
    IN SubSeq(list, 1, i - 1) \o SubSeq(list, i + 1, Len(list))

RECURSIVE split_blocks(_, _, _, _, _)
\* for Y in P: ... ; P = new_P
split_blocks(P, i, X, new_P, W) ==
    IF i > Len(P) THEN [P |-> new_P, W |-> W]
    ELSE LET Y == P[i]
             inter == Y \cap X
             diff == Y \ X
         IN IF inter # {} /\ diff # {}
            THEN split_blocks(P, i + 1, X, new_P \o <<inter, diff>>,
                    IF InList(Y, W)
                    THEN ListRemove(W, Y) \o <<inter, diff>>
                    ELSE IF Cardinality(inter) <= Cardinality(diff)
                         THEN Append(W, inter)
                         ELSE Append(W, diff))
            ELSE split_blocks(P, i + 1, X, Append(new_P, Y), W)

\* X: the states whose transition on c leads into the block
Predecessors(A, block, c) ==
    {q \in A.states :
        LET dsts == Get(A.transitions, <<q, c>>)
        IN dsts # {} /\ (CHOOSE d \in dsts : TRUE) \in block}

RECURSIVE refine_symbols(_, _, _, _, _)
\* for c in self.alphabet
refine_symbols(A, block, cs, P, W) ==
    IF cs = <<>> THEN [P |-> P, W |-> W]
    ELSE LET r == split_blocks(P, 1, Predecessors(A, block, Head(cs)), <<>>, W)
         IN refine_symbols(A, block, Tail(cs), r.P, r.W)

RECURSIVE refine(_, _, _, _)
\* while W: A = W.pop(0) ...
refine(A, cs, P, W) ==
    IF W = <<>> THEN P
    ELSE LET r == refine_symbols(A, Head(W), cs, P, Tail(W))
         IN refine(A, cs, r.P, r.W)

\* the characters of state names in code point order
CharOrder == "&,0123456789G_abcdefghijklmnopqrstuvwxyz{}"

\* ord(c), up to the order
CharRank(c) == CHOOSE i \in 1..Len(CharOrder) : SubSeq(CharOrder, i, i) = c

RECURSIVE StrLess(_, _)
\* a < b as Python compares strings
StrLess(a, b) ==
    IF b = "" THEN FALSE
    ELSE IF a = "" THEN TRUE
    ELSE IF SubSeq(a, 1, 1) = SubSeq(b, 1, 1)
         THEN StrLess(SubSeq(a, 2, Len(a)), SubSeq(b, 2, Len(b)))
    ELSE CharRank(SubSeq(a, 1, 1)) < CharRank(SubSeq(b, 1, 1))

RECURSIVE SortedNames(_)
\* sorted(list(group))
SortedNames(group) ==
    IF group = {} THEN <<>>
    ELSE LET least == CHOOSE n \in group :
                        \A m \in group \ {n} : StrLess(n, m)
         IN <<least>> \o SortedNames(group \ {least})

RECURSIVE Join(_)
\* ','.join(names)
Join(names) ==
    IF names = <<>> THEN ""
    ELSE IF Len(names) = 1 THEN names[1]
    ELSE names[1] \o "," \o Join(Tail(names))

\* new_name: the member of a singleton group, else "{m1,m2,...}" sorted
GroupName(group) ==
    LET names == SortedNames(group)
    IN IF Cardinality(group) > 1 THEN "{" \o Join(names) \o "}" ELSE names[1]

RECURSIVE minimize_add_states(_, _, _, _)
\* for i, group in enumerate(P): newDFA.add_state(...)
minimize_add_states(self, P, i, newDFA) ==
    IF i > Len(P) THEN newDFA
    ELSE minimize_add_states(self, P, i + 1,
            add_state(newDFA, GroupName(P[i]),
                      self.start_state \in P[i],
                      self.final_states \cap P[i] # {}))

\* state_map[s]
GroupNameOf(P, s) == GroupName(P[CHOOSE i \in 1..Len(P) : s \in P[i]])

RECURSIVE minimize_add_transitions(_, _, _, _, _)
\* for (src, sym), dsts in self.transitions.items(): the keys are taken in
\* some order; a (group, symbol) pair is processed once
minimize_add_transitions(self, P, keys, processed, newDFA) ==
    IF keys = {} THEN newDFA
    ELSE LET k == CHOOSE x \in keys : TRUE
             mapped == UNION {P[i] : i \in 1..Len(P)}
             dst == CHOOSE d \in self.transitions[k] : TRUE
         IN IF k[1] \in mapped
               /\ <<GroupNameOf(P, k[1]), k[2]>> \notin processed
               /\ dst \in mapped
            THEN minimize_add_transitions(self, P, keys \ {k},
                    processed \cup {<<GroupNameOf(P, k[1]), k[2]>>},
                    add_transition(newDFA, GroupNameOf(P, k[1]), k[2],
                                   GroupNameOf(P, dst)))
            ELSE minimize_add_transitions(self, P, keys \ {k}, processed,
                                          newDFA)

minimize_raises(A) == ~is_dfa(A)

\* self when the partition is refined, and the refined partition P
minimize_refined(A, order) ==
    LET self == make_complete(A)
        final == self.final_states
        nonfinal == self.states \ self.final_states
    IN [self |-> self,
        P |-> refine(self, ListOf(self.alphabet, order), <<final, nonfinal>>,
                     IF Cardinality(final) <= Cardinality(nonfinal)
                     THEN <<final>> ELSE <<nonfinal>>)]

\* the non-empty groups of P without the error state
WithoutError(P) ==
    SelectSeq([i \in 1..Len(P) |-> P[i] \ {error_state_name}],
              LAMBDA group : group # {})

\* minimize with _make_complete() called ahead of the is_dfa() check
minimize_completes_first(A, order) ==
    [self |-> make_complete(A), newDFA |-> NoAutomato]

\* minimize: self after the call and the automaton returned; order is the
\* iteration order of self.alphabet
minimize(A, order) ==
    IF minimize_raises(A) THEN [self |-> A, newDFA |-> NoAutomato]
    ELSE LET r == minimize_refined(A, order)
             hasError == error_state_name \in r.self.states
             self == IF hasError THEN remove_state(r.self, error_state_name)
                     ELSE r.self
             P == SelectSeq(IF hasError THEN WithoutError(r.P) ELSE r.P,
                            LAMBDA group : group # {})
             states == minimize_add_states(self, P, 1, Automato)
         IN [self |-> self,
             newDFA |-> minimize_add_transitions(self, P,
                            DOMAIN self.transitions, {}, states)]

(***************************************************************************)
(* Automato: regular grammar                                               *)
(***************************************************************************)
to_regular_grammar_raises(A) == A.start_state = None

\* the collecting loop without the terminal-only alternative of a final dst
to_regular_grammar_prods_no_terminal_only(A) ==
    [p \in A.states |->
        LET closure == epsilon_closure(A, {p})
            out == {t \in Triples(A) : t[1] \in closure /\ t[2] # EPSILON}
        IN (IF closure \cap A.final_states # {} THEN {<<EPSILON>>} ELSE {})
           \cup {<<t[2], t[3]>> : t \in out}]

\* prods after the collecting loop: for each state p the right-hand sides,
\* <<EPSILON>>, <<sym, dst>>, or <<sym, None>> for a final dst
to_regular_grammar_prods(A) ==
    [p \in A.states |->
        LET closure == epsilon_closure(A, {p})
            out == {t \in Triples(A) : t[1] \in closure /\ t[2] # EPSILON}
        IN (IF closure \cap A.final_states # {} THEN {<<EPSILON>>} ELSE {})
           \cup {<<t[2], t[3]>> : t \in out}
           \cup {<<t[2], None>> : t \in {u \in out : u[3] \in A.final_states}}]

(***************************************************************************)
(* Automato: serialization                                                 *)
(* A JSON document is the value json.loads gives for it: an object is a    *)
(* record, an array a sequence, null is JsonNull.                          *)
(***************************************************************************)
JsonNull == "<null>"

\* json.dumps of a name or None
JsonOfName(name) == IF name = None THEN JsonNull ELSE name

\* data.get("start_state"): None for null
NameOfJson(value) == IF value = JsonNull THEN None ELSE value

RECURSIVE SeqOf(_)
\* the members of a set in one iteration order
SeqOf(S) ==
    IF S = {} THEN <<>>
    ELSE LET x == CHOOSE y \in S : TRUE IN <<x>> \o SeqOf(S \ {x})

Reverse(seq) == [i \in 1..Len(seq) |-> seq[Len(seq) + 1 - i]]

\* list(a_set): the iteration order is that of SeqOf or its reverse
ListOfSet(S, reversed) == IF reversed THEN Reverse(SeqOf(S)) ELSE SeqOf(S)

\* set(a_list)
SetOfList(list) == {list[i] : i \in 1..Len(list)}

\* to_json with "dst": one destination per key, as MaquinaMoore writes it
to_json_single_dst(A, reversed) ==
    [states |-> ListOfSet(A.states, reversed),
     start_state |-> JsonOfName(A.start_state),
     final_states |-> ListOfSet(A.final_states, reversed),
     alphabet |-> ListOfSet(A.alphabet, reversed),
     transitions |->
        LET keys == ListOfSet(DOMAIN A.transitions, reversed)
        IN [i \in 1..Len(keys) |->
                [src |-> keys[i][1], symbol |-> keys[i][2],
                 dsts |-> <<CHOOSE d \in A.transitions[keys[i]] : TRUE>>]]]

to_json(A, reversed) ==
    [states |-> ListOfSet(A.states, reversed),
     start_state |-> JsonOfName(A.start_state),
     final_states |-> ListOfSet(A.final_states, reversed),
     alphabet |-> ListOfSet(A.alphabet, reversed),
     transitions |->
        LET keys == ListOfSet(DOMAIN A.transitions, reversed)
        IN [i \in 1..Len(keys) |->
                [src |-> keys[i][1], symbol |-> keys[i][2],
                 dsts |-> ListOfSet(A.transitions[keys[i]], reversed)]]]

\* t["src"], t["symbol"] or t["dsts"] raises KeyError, which from_json does
\* not catch
from_json_raises(data) ==
    \E i \in 1..Len(data.transitions) :
        {"src", "symbol", "dsts"} \ DOMAIN data.transitions[i] # {}

RECURSIVE from_json_dsts(_, _, _)
\* for dst in t["dsts"]: a.transitions[(src, sym)].add(dst)
from_json_dsts(transitions, key, dsts) ==
    IF dsts = <<>> THEN transitions
    ELSE from_json_dsts(Put(transitions, key,
                            Get(transitions, key) \cup {Head(dsts)}),
                        key, Tail(dsts))

RECURSIVE from_json_transitions(_, _)
\* for t in transitions_data
from_json_transitions(transitions, transitions_data) ==
    IF transitions_data = <<>> THEN transitions
    ELSE LET t == Head(transitions_data)
         IN from_json_transitions(
                from_json_dsts(transitions, <<t.src, t.symbol>>, t.dsts),
                Tail(transitions_data))

\* the Automato from_json returns when it does not raise
from_json(data) ==
    [states |-> SetOfList(data.states),
     start_state |-> NameOfJson(data.start_state),
     final_states |-> SetOfList(data.final_states),
     alphabet |-> SetOfList(data.alphabet),
     transitions |-> from_json_transitions(<<>>, data.transitions)]

(***************************************************************************)
(* AutomatoPilha (src/core/pilha.py)                                       *)
(***************************************************************************)
\* the labels (input symbol, pop symbol, push string) the editor offers: each
\* of the three is epsilon in one label and not in another
PilhaLabels == {<<"a", "&", "AZ">>, <<"ab", "A", "&">>, <<"&", "Z", "&">>}
PilhaPushes == {l[3] : l \in PilhaLabels}

AutomatoPilha ==
    [states |-> {}, input_alphabet |-> {}, stack_alphabet |-> {},
     start_state |-> None, start_stack_symbol |-> "Z", final_states |-> {},
     transitions |-> <<>>]

Pilha_NumTrans(P) ==
    Cardinality({t \in (DOMAIN P.transitions) \X (P.states \X PilhaPushes) :
                    t[2] \in P.transitions[t[1]]})

\* "not self.states" is evaluated after self.states.add(state)
Pilha_add_state(P, state, is_start, is_final) ==
    LET states == P.states \cup {state} IN
    [P EXCEPT
        !.states = states,
        !.start_state = IF is_start \/ (P.start_state = None /\ states = {})
                        THEN state ELSE @,
        !.final_states = IF is_final THEN @ \cup {state} ELSE @]

Pilha_add_transition_raises(P, src, dst) ==
    src \notin P.states \/ dst \notin P.states

Pilha_add_transition(P, src, input_sym, pop_sym, dst, push_syms) ==
    IF Pilha_add_transition_raises(P, src, dst) THEN P
    ELSE LET key == <<src, input_sym, pop_sym>> IN
         [P EXCEPT
            !.input_alphabet =
                IF input_sym # EPSILON THEN @ \cup {input_sym} ELSE @,
            !.stack_alphabet =
                @ \cup (IF pop_sym # EPSILON THEN {pop_sym} ELSE {})
                  \cup (Chars(push_syms) \ {EPSILON})
                  \cup {P.start_stack_symbol},
            !.transitions = Put(@, key, Get(@, key) \cup {<<dst, push_syms>>})]

Pilha_remove_state(P, state_to_remove) ==
    IF state_to_remove \notin P.states THEN P
    ELSE LET new_destinations(k) ==
                {d \in P.transitions[k] : d[1] # state_to_remove}
             kept == {k \in DOMAIN P.transitions :
                        k[1] # state_to_remove /\ new_destinations(k) # {}}
         IN [P EXCEPT
                !.states = @ \ {state_to_remove},
                !.start_state = IF @ = state_to_remove THEN None ELSE @,
                !.final_states = @ \ {state_to_remove},
                !.transitions = [k \in kept |-> new_destinations(k)]]

Pilha_rename_state_raises(P, old_name, new_name) ==
    \/ old_name \notin P.states
    \/ (new_name \in P.states /\ new_name # old_name)

Pilha_rename_state(P, old_name, new_name) ==
    IF Pilha_rename_state_raises(P, old_name, new_name) THEN P
    ELSE LET ren(s) == IF s = old_name THEN new_name ELSE s
             newkeys == {<<ren(k[1]), k[2], k[3]>> : k \in DOMAIN P.transitions}
             oldkey(nk) == CHOOSE k \in DOMAIN P.transitions :
                              <<ren(k[1]), k[2], k[3]>> = nk
         IN [P EXCEPT
                !.states = (@ \ {old_name}) \cup {new_name},
                !.start_state = IF @ = old_name THEN new_name ELSE @,
                !.final_states = IF old_name \in @
                                 THEN (@ \ {old_name}) \cup {new_name} ELSE @,
                !.transitions =
                    [nk \in newkeys |->
                        {<<ren(d[1]), d[2]>> : d \in P.transitions[oldkey(nk)]}]]

remove_pda_transition(P, src, input_sym, pop_sym, dst, push_syms) ==
    LET key == <<src, input_sym, pop_sym>>
        target == <<dst, push_syms>>
    IN IF key \in DOMAIN P.transitions
       THEN IF P.transitions[key] \ {target} = {}
            THEN [P EXCEPT !.transitions = Del(@, key)]
            ELSE [P EXCEPT
                    !.transitions = Put(@, key, P.transitions[key] \ {target})]
       ELSE P

\* the index of the first comma of a string, 0 when it has none
CommaAt(str) ==
    LET commas == {i \in 1..Len(str) : SubSeq(str, i, i) = ","}
    IN IF commas = {} THEN 0
       ELSE CHOOSE i \in commas : \A j \in commas : i <= j

\* key.split(',', 2)
Split2(key) ==
    LET i == CommaAt(key) IN
    IF i = 0 THEN <<key>>
    ELSE LET rest == SubSeq(key, i + 1, Len(key))
             j == CommaAt(rest)
         IN IF j = 0 THEN <<SubSeq(key, 1, i - 1), rest>>
            ELSE <<SubSeq(key, 1, i - 1), SubSeq(rest, 1, j - 1),
                   SubSeq(rest, j + 1, Len(rest))>>

\* f"{src},{inp},{pop_sym}"
Pilha_json_key(k) == k[1] \o "," \o k[2] \o "," \o k[3]

RECURSIVE Pilha_json_transitions(_, _, _, _)
\* serializable_transitions[key] = [list(d) for d in dests], key after key
Pilha_json_transitions(P, keys, reversed, serializable_transitions) ==
    IF keys = <<>> THEN serializable_transitions
    ELSE Pilha_json_transitions(P, Tail(keys), reversed,
            Put(serializable_transitions, Pilha_json_key(Head(keys)),
                ListOfSet(P.transitions[Head(keys)], reversed)))

Pilha_to_json(P, reversed) ==
    [states |-> ListOfSet(P.states, reversed),
     input_alphabet |-> ListOfSet(P.input_alphabet, reversed),
     stack_alphabet |-> ListOfSet(P.stack_alphabet, reversed),
     start_state |-> JsonOfName(P.start_state),
     start_stack_symbol |-> P.start_stack_symbol,
     final_states |-> ListOfSet(P.final_states, reversed),
     transitions |->
        Pilha_json_transitions(P, ListOfSet(DOMAIN P.transitions, reversed),
                               reversed, <<>>)]

\* the keys of the document that split into three parts
Pilha_wellformed_keys(data) ==
    {key \in DOMAIN data.transitions : Len(Split2(key)) = 3}

\* the characters of the push strings of a list of destinations
Pilha_push_chars(dests) ==
    UNION {Chars(dests[i][2]) : i \in 1..Len(dests)}

\* the AutomatoPilha from_json returns; first is next(iter(pda.states)), used
\* when the start state read is not a state
Pilha_from_json(data, first) ==
    LET keys == Pilha_wellformed_keys(data)
        parts == {Split2(key) : key \in keys}
        start_state == NameOfJson(data.start_state)
        states == SetOfList(data.states)
    IN [states |-> states,
        input_alphabet |->
            SetOfList(data.input_alphabet)
                \cup ({x[2] : x \in parts} \ {EPSILON}),
        stack_alphabet |->
            SetOfList(data.stack_alphabet)
                \cup (IF data.start_stack_symbol # ""
                      THEN {data.start_stack_symbol} ELSE {})
                \cup (({x[3] : x \in parts}
                        \cup UNION {Pilha_push_chars(data.transitions[key]) :
                                        key \in keys})
                      \ {EPSILON}),
        start_state |->
            IF start_state \in states THEN start_state
            ELSE IF states # {} THEN first ELSE None,
        start_stack_symbol |-> data.start_stack_symbol,
        final_states |-> SetOfList(data.final_states),
        transitions |->
            [k \in {<<x[1], x[2], x[3]>> : x \in parts} |->
                SetOfList(data.transitions[Pilha_json_key(k)])]]

\* tuple(push_syms): the characters of the push string, the last one on top
TupleOf(str) == [i \in 1..Len(str) |-> SubSeq(str, i, i)]

\* a push that leaves the stack as it is
Pilha_push_nothing(stack, push_syms) == stack

\* new_stack = stack + tuple(push_syms) if push_syms != EPSILON else stack
Pilha_push(stack, push_syms) ==
    IF push_syms # EPSILON THEN stack \o TupleOf(push_syms) ELSE stack

\* top = stack[-1] if stack else None, then "if top": an empty stack and an
\* empty top symbol both skip the popping transitions
Pilha_has_top(stack) == stack # <<>> /\ stack[Len(stack)] # ""

\* the configurations the transitions of conf's state on symbol lead to, at
\* cursor new_idx: those that pop nothing, then those that pop the top
Pilha_successors(P, conf, symbol, new_idx) ==
    LET state == conf[1]
        stack == conf[3]
        stack_base == SubSeq(stack, 1, Len(stack) - 1)
    IN {<<d[1], new_idx, Pilha_push(stack, d[2])>> :
            d \in Get(P.transitions, <<state, symbol, EPSILON>>)}
       \cup (IF Pilha_has_top(stack)
             THEN {<<d[1], new_idx, Pilha_push(stack_base, d[2])>> :
                    d \in Get(P.transitions,
                              <<state, symbol, stack[Len(stack)]>>)}
             ELSE {})

RECURSIVE Pilha_closure_loop(_, _, _, _, _)
\* the while loop of _get_epsilon_closure: queue is a list, closure and
\* visited_epsilon are sets; reversed is the iteration order of the sets
Pilha_closure_loop(P, queue, closure, visited_epsilon, reversed) ==
    IF queue = <<>> THEN closure
    ELSE LET conf == Head(queue)
             config_key == <<conf[1], conf[3]>>
         IN IF config_key \in visited_epsilon
            THEN Pilha_closure_loop(P, Tail(queue), closure, visited_epsilon,
                                    reversed)
            ELSE LET new_configs ==
                        ListOfSet(Pilha_successors(P, conf, EPSILON, conf[2])
                                    \ closure, reversed)
                 IN Pilha_closure_loop(P, Tail(queue) \o new_configs,
                        closure \cup SetOfList(new_configs),
                        (visited_epsilon \cup {config_key})
                            \ {<<c[1], c[3]>> : c \in SetOfList(new_configs)},
                        reversed)

Pilha_get_epsilon_closure(P, configs, reversed) ==
    Pilha_closure_loop(P, ListOfSet(configs, reversed), configs, {}, reversed)

Pilha_move_with_symbol(P, configs, symbol) ==
    UNION {Pilha_successors(P, conf, symbol, conf[2] + Len(symbol)) :
            conf \in configs}

RECURSIVE Pilha_enqueue(_, _, _)
\* for conf in list: if conf not in queue and conf not in visited_in_step:
\* queue.append(conf)
Pilha_enqueue(queue, list, visited_in_step) ==
    IF list = <<>> THEN queue
    ELSE LET conf == Head(list)
         IN Pilha_enqueue(IF InList(conf, queue) \/ conf \in visited_in_step
                          THEN queue ELSE Append(queue, conf),
                          Tail(list), visited_in_step)

\* sorted(list(possible_symbols), key=len) without reverse=True
Pilha_sorted_symbols_shortest_first(possible_symbols, reversed) ==
    SortedByLen_ascending(ListOfSet(possible_symbols, reversed))

\* sorted(list(possible_symbols), key=len, reverse=True)
Pilha_sorted_symbols(possible_symbols, reversed) ==
    SortedByLen(ListOfSet(possible_symbols, reversed))

\* the non-epsilon symbols on the transitions that leave state
Pilha_possible_symbols(P, state) ==
    {k[2] : k \in {k \in DOMAIN P.transitions :
                    k[1] = state /\ k[2] # EPSILON}}

RECURSIVE Pilha_simulate_loop(_, _, _, _)
\* the while loop of simulate_history over the queue of configurations
\* (state, cursor, stack); s holds queue, history, processed_indices,
\* visited_in_step and final_reachable_configs
Pilha_simulate_loop(P, input_str, s, reversed) ==
    IF s.queue = <<>> THEN s
    ELSE
    LET config_tuple == Head(s.queue)
        current_idx == config_tuple[2]
        at_end == IF current_idx = Len(input_str)
                  THEN s.final_reachable_configs \cup {config_tuple}
                  ELSE s.final_reachable_configs
    IN
    IF config_tuple \in s.visited_in_step
    THEN Pilha_simulate_loop(P, input_str,
            [s EXCEPT !.queue = Tail(@), !.final_reachable_configs = at_end],
            reversed)
    ELSE
    LET remaining_input == Suffix(input_str, current_idx)
        sorted_symbols ==
            Pilha_sorted_symbols(Pilha_possible_symbols(P, config_tuple[1]),
                                 reversed)
        matching == SelectSeq(sorted_symbols,
                              LAMBDA x : StartsWith(remaining_input, x))
        moved_with_symbol == remaining_input # "" /\ matching # <<>>
        symbol == Head(matching)
        closure_after_move ==
            IF moved_with_symbol
            THEN Pilha_get_epsilon_closure(P,
                    Pilha_move_with_symbol(P, {config_tuple}, symbol),
                    reversed)
            ELSE {}
        new_idx == current_idx + Len(symbol)
        advanced == /\ moved_with_symbol
                    /\ new_idx \notin s.processed_indices
                    /\ closure_after_move # {}
        rep == Head(ListOfSet(closure_after_move, reversed))
        visited == IF advanced THEN {}
                   ELSE s.visited_in_step \cup {config_tuple}
        queue_after_move ==
            Pilha_enqueue(Tail(s.queue),
                          ListOfSet(closure_after_move, reversed), visited)
        epsilon_neighbors ==
            Pilha_get_epsilon_closure(P, {config_tuple}, reversed)
                \ {config_tuple}
        appended == {conf \in epsilon_neighbors :
                        /\ ~InList(conf, queue_after_move)
                        /\ conf \notin visited}
    IN Pilha_simulate_loop(P, input_str,
        [queue |-> Pilha_enqueue(queue_after_move,
                        ListOfSet(epsilon_neighbors, reversed), visited),
         history |-> IF advanced
                     THEN Append(s.history, <<rep[1], new_idx, rep[3]>>)
                     ELSE s.history,
         processed_indices |-> IF advanced
                               THEN s.processed_indices \cup {new_idx}
                               ELSE s.processed_indices,
         visited_in_step |-> visited,
         final_reachable_configs |->
            at_end \cup {conf \in appended : conf[2] = Len(input_str)}],
        reversed)

\* simulate_history of AutomatoPilha: the history and the verdict; reversed is
\* the order in which the sets of configurations and of symbols iterate
Pilha_simulate_history(P, input_str, reversed) ==
    IF P.start_state \in {None, ""}
    THEN [history |-> <<>>, accepted |-> FALSE]
    ELSE
    LET initial_config == <<P.start_state, 0, <<P.start_stack_symbol>>>>
        current_configs ==
            Pilha_get_epsilon_closure(P, {initial_config}, reversed)
        s == Pilha_simulate_loop(P, input_str,
                [queue |-> ListOfSet(current_configs, reversed),
                 history |-> <<Head(ListOfSet(current_configs, reversed))>>,
                 processed_indices |-> {0},
                 visited_in_step |-> {},
                 final_reachable_configs |-> {}],
                reversed)
        accepted == \E conf \in s.final_reachable_configs :
                        conf[2] = Len(input_str)
                        /\ conf[1] \in P.final_states
        last == s.history[Len(s.history)]
    IN [history |-> IF last[2] < Len(input_str) /\ ~accepted
                    THEN Append(s.history, <<"-", last[2], last[3]>>)
                    ELSE s.history,
        accepted |-> accepted]

\* simulate of AutomatoPilha: the verdict of simulate_history
Pilha_simulate(P, input_str, reversed) ==
    IF P.start_state \in {None, ""} THEN FALSE
    ELSE Pilha_simulate_history(P, input_str, reversed).accepted

(***************************************************************************)
(* AutomatoPilha.simulate_history, one loop iteration at a time            *)
(***************************************************************************)
\* one iteration of the while loop of _get_epsilon_closure on its locals
\* c = [queue, closure, visited_epsilon]
Pilha_closure_step(P, c, reversed) ==
    LET conf == Head(c.queue)
        config_key == <<conf[1], conf[3]>>
        new_configs ==
            ListOfSet(Pilha_successors(P, conf, EPSILON, conf[2]) \ c.closure,
                      reversed)
    IN IF config_key \in c.visited_epsilon
       THEN [c EXCEPT !.queue = Tail(@)]
       ELSE [queue |-> Tail(c.queue) \o new_configs,
             closure |-> c.closure \cup SetOfList(new_configs),
             visited_epsilon |->
                (c.visited_epsilon \cup {config_key})
                    \ {<<n[1], n[3]>> : n \in SetOfList(new_configs)}]

\* the locals of _get_epsilon_closure(configs) before its loop
Pilha_closure_call(configs, reversed) ==
    [queue |-> ListOfSet(configs, reversed), closure |-> configs,
     visited_epsilon |-> {}]

\* simulate_history up to the first call of _get_epsilon_closure; a run r
\* holds the locals of simulate_history, the locals of the closure call in
\* progress (call) and the place the call returns to (after)
Pilha_run_start(P, input_str, reversed) ==
    LET initial_config == <<P.start_state, 0, <<P.start_stack_symbol>>>>
    IN [pc |-> "closure", after |-> "start",
        input_str |-> input_str, reversed |-> reversed,
        call |-> Pilha_closure_call({initial_config}, reversed),
        config_tuple |-> initial_config, symbol |-> "",
        queue |-> <<>>, history |-> <<>>, processed_indices |-> {0},
        visited_in_step |-> {}, final_reachable_configs |-> {},
        accepted |-> FALSE]

\* the head of the while loop of simulate_history: pop a configuration, skip
\* it when visited, else look for the longest matching symbol and call
\* _get_epsilon_closure on the move, or on the configuration alone
Pilha_run_main(P, r) ==
    LET config_tuple == Head(r.queue)
        current_idx == config_tuple[2]
        at_end == IF current_idx = Len(r.input_str)
                  THEN r.final_reachable_configs \cup {config_tuple}
                  ELSE r.final_reachable_configs
        remaining_input == Suffix(r.input_str, current_idx)
        sorted_symbols ==
            Pilha_sorted_symbols(Pilha_possible_symbols(P, config_tuple[1]),
                                 r.reversed)
        matching == SelectSeq(sorted_symbols,
                              LAMBDA x : StartsWith(remaining_input, x))
        moved_with_symbol == remaining_input # "" /\ matching # <<>>
    IN IF config_tuple \in r.visited_in_step
       THEN [r EXCEPT !.queue = Tail(@), !.final_reachable_configs = at_end]
       ELSE [r EXCEPT
                !.queue = Tail(@),
                !.final_reachable_configs = at_end,
                !.visited_in_step = @ \cup {config_tuple},
                !.config_tuple = config_tuple,
                !.symbol = IF moved_with_symbol THEN Head(matching) ELSE "",
                !.pc = "closure",
                !.after = IF moved_with_symbol THEN "move" ELSE "epsilon",
                !.call = Pilha_closure_call(
                            IF moved_with_symbol
                            THEN Pilha_move_with_symbol(P, {config_tuple},
                                                        Head(matching))
                            ELSE {config_tuple},
                            r.reversed)]

\* simulate_history from the return of the closure call on
\* r.call.closure: after the first call the queue and the first history
\* entry; after the call on a move the new history entry and the queue, then
\* the call on the configuration alone; after that call the queue
Pilha_run_return(P, r) ==
    LET closure == r.call.closure
        listed == ListOfSet(closure, r.reversed)
        new_idx == r.config_tuple[2] + Len(r.symbol)
        advanced == new_idx \notin r.processed_indices /\ closure # {}
        visited == IF advanced THEN {} ELSE r.visited_in_step
        epsilon_neighbors == closure \ {r.config_tuple}
        appended == {conf \in epsilon_neighbors :
                        /\ ~InList(conf, r.queue)
                        /\ conf \notin r.visited_in_step}
    IN CASE r.after = "start" ->
                [r EXCEPT !.pc = "main", !.queue = listed,
                          !.history = <<Head(listed)>>]
         [] r.after = "move" ->
                [r EXCEPT
                    !.after = "epsilon",
                    !.call = Pilha_closure_call({r.config_tuple}, r.reversed),
                    !.history = IF advanced
                                THEN Append(@, <<Head(listed)[1], new_idx,
                                                 Head(listed)[3]>>)
                                ELSE @,
                    !.processed_indices = IF advanced THEN @ \cup {new_idx}
                                          ELSE @,
                    !.visited_in_step = visited,
                    !.queue = Pilha_enqueue(@, listed, visited)]
         [] r.after = "epsilon" ->
                [r EXCEPT
                    !.pc = "main",
                    !.queue = Pilha_enqueue(@,
                                ListOfSet(epsilon_neighbors, r.reversed),
                                r.visited_in_step),
                    !.final_reachable_configs =
                        @ \cup {conf \in appended :
                                    conf[2] = Len(r.input_str)}]

\* simulate_history after its while loop: the verdict and the stuck entry
Pilha_run_finish(P, r) ==
    LET accepted == \E conf \in r.final_reachable_configs :
                        conf[2] = Len(r.input_str)
                        /\ conf[1] \in P.final_states
        last == r.history[Len(r.history)]
    IN [r EXCEPT
            !.pc = "done",
            !.accepted = accepted,
            !.history = IF last[2] < Len(r.input_str) /\ ~accepted
                        THEN Append(@, <<"-", last[2], last[3]>>)
                        ELSE @]

(***************************************************************************)
(* Automato: the text of the regular grammar (src/core/automato.py)        *)
(***************************************************************************)
RECURSIVE JoinWith(_, _)
\* sep.join(list)
JoinWith(list, sep) ==
    IF list = <<>> THEN ""
    ELSE IF Len(list) = 1 THEN list[1]
    ELSE list[1] \o sep \o JoinWith(Tail(list), sep)

\* the text an f-string gives for a list of strings: ['a', 'b']
ReprList(list) ==
    "[" \o JoinWith([i \in 1..Len(list) |-> "'" \o list[i] \o "'"], ", ")
        \o "]"

\* _sort_key of two items (sym, dst): by sym, then by dst or ""
ItemLess(x, y) ==
    LET dst_key(item) == IF item[2] = None THEN "" ELSE item[2]
    IN StrLess(x[1], y[1]) \/ (x[1] = y[1] /\ StrLess(dst_key(x), dst_key(y)))

RECURSIVE SortedItems(_)
SortedItems(items) ==
    IF items = {} THEN <<>>
    ELSE LET least == CHOOSE x \in items :
                        \A y \in items \ {x} : ItemLess(x, y)
         IN <<least>> \o SortedItems(items \ {least})

\* sorted(rhss, key=_sort_key): the epsilon item first, then the pairs
SortedRhs(rhss) ==
    (IF <<EPSILON>> \in rhss THEN <<<<EPSILON>>>> ELSE <<>>)
    \o SortedItems(rhss \ {<<EPSILON>>})

\* one alternative of a production
FormatItem(item) ==
    IF item = <<EPSILON>> THEN "ε"
    ELSE IF item[2] = None THEN item[1]
    ELSE item[1] \o " " \o item[2]

\* f"{p} -> {' | '.join(parts)}"
ProductionLine(p, rhss) ==
    LET items == SortedRhs(rhss)
    IN p \o " -> "
         \o JoinWith([i \in 1..Len(items) |-> FormatItem(items[i])], " | ")

\* the production lines of the nonterminals in names that have productions
ProductionLines(names, prods) ==
    LET with_rhss == SelectSeq(names, LAMBDA q : Get(prods, q) # {})
    IN [i \in 1..Len(with_rhss) |->
            ProductionLine(with_rhss[i], prods[with_rhss[i]])]

\* the grammar in extended form (strict=False)
to_regular_grammar_extended(A) ==
    JoinWith(<<"# Gramática Regular gerada (estendida)",
               "# Símbolos terminais: "
                    \o ReprList(SortedNames(A.alphabet \ {EPSILON})),
               "# Não-terminais (estados): "
                    \o ReprList(SortedNames(A.states)),
               "",
               "S = " \o A.start_state,
               "">>
             \o ProductionLines(SortedNames(A.states),
                                to_regular_grammar_prods(A)),
             "\n")

\* f"__G{new_counter}"
GName(new_counter) ==
    "__G" \o <<"0", "1", "2", "3", "4", "5", "6", "7", "8", "9", "10", "11",
               "12", "13", "14", "15", "16", "17", "18", "19", "20", "21",
               "22", "23", "24", "25", "26", "27", "28", "29", "30", "31",
               "32", "33", "34", "35", "36", "37", "38", "39">>[new_counter + 1]

\* _new_nt that hands out the same name again and again
new_nt_reused(A, new_counter) ==
    [name |-> GName(0), new_counter |-> new_counter + 1]

\* _new_nt: the first name from new_counter on that is not a state, and the
\* counter after it
new_nt(A, new_counter) ==
    LET n == CHOOSE i \in new_counter..(new_counter + Cardinality(A.states)) :
                /\ GName(i) \notin A.states
                /\ \A j \in new_counter..(i - 1) : GName(j) \in A.states
    IN [name |-> GName(n), new_counter |-> n + 1]

RECURSIVE strict_chain(_, _, _, _, _, _)
\* for i, ch in enumerate(chars): a fresh nonterminal after every character
\* but the last, which leads to dst
strict_chain(A, st, prev, chars, i, dst) ==
    IF i = Len(chars)
    THEN [st EXCEPT !.strict_prods =
            Put(@, prev, Get(@, prev) \cup {<<chars[i], dst>>})]
    ELSE LET nt == new_nt(A, st.new_counter)
         IN strict_chain(A,
                [strict_prods |->
                    Put(st.strict_prods, prev,
                        Get(st.strict_prods, prev) \cup {<<chars[i], nt.name>>}),
                 nonterminals |-> st.nonterminals \cup {nt.name},
                 new_counter |-> nt.new_counter],
                nt.name, chars, i + 1, dst)

\* the body of "for item in rhss" for the state p
strict_item(A, st, p, item) ==
    IF item = <<EPSILON>> \/ item[1] = EPSILON
    THEN [st EXCEPT !.strict_prods =
            Put(@, p, Get(@, p) \cup {<<EPSILON>>})]
    ELSE strict_chain(A, st, p, TupleOf(item[1]), 1, item[2])

RECURSIVE strict_items(_, _, _, _)
strict_items(A, st, p, items) ==
    IF items = <<>> THEN st
    ELSE strict_items(A, strict_item(A, st, p, Head(items)), p, Tail(items))

RECURSIVE strict_states(_, _, _, _, _)
\* for p in sorted(self.states): for item in rhss; reversed is the order in
\* which the sets of items iterate
strict_states(A, st, names, prods, reversed) ==
    IF names = <<>> THEN st
    ELSE strict_states(A,
            strict_items(A, st, Head(names),
                         ListOfSet(prods[Head(names)], reversed)),
            Tail(names), prods, reversed)

\* strict_prods, nonterminals and new_counter after the loop
to_regular_grammar_strict_prods(A, reversed) ==
    strict_states(A,
        [strict_prods |-> <<>>, nonterminals |-> A.states, new_counter |-> 0],
        SortedNames(A.states), to_regular_grammar_prods(A), reversed)

\* the grammar in strict form (strict=True)
to_regular_grammar_strict(A, reversed) ==
    LET st == to_regular_grammar_strict_prods(A, reversed)
        terminals == UNION {Chars(t[2]) :
                            t \in {u \in Triples(A) : u[2] # EPSILON}}
    IN JoinWith(<<"# Gramática Regular gerada (forma estrita)",
                  "# Símbolos terminais: " \o ReprList(SortedNames(terminals)),
                  "# Não-terminais: "
                        \o ReprList(SortedNames(st.nonterminals)),
                  "",
                  "S = " \o A.start_state,
                  "">>
                \o ProductionLines(SortedNames(st.nonterminals),
                                   st.strict_prods),
                "\n")

\* to_regular_grammar: the text returned when a start state is set
to_regular_grammar(A, strict, reversed) ==
    IF strict THEN to_regular_grammar_strict(A, reversed)
    ELSE to_regular_grammar_extended(A)

(***************************************************************************)
(* MaquinaMoore (src/core/maquina_moore.py)                                *)
(***************************************************************************)
MooreInputs == {"a", "ab"}
MooreOutputs == {"0", "1"}

MaquinaMoore ==
    [states |-> {}, start_state |-> None, input_alphabet |-> {},
     output_alphabet |-> {}, output_function |-> <<>>, transitions |-> <<>>]

Moore_NumTrans(M) == Cardinality(DOMAIN M.transitions)

Moore_add_state(M, state, output_symbol, is_start) ==
    [M EXCEPT
        !.states = @ \cup {state},
        !.output_function = Put(@, state, output_symbol),
        !.output_alphabet = @ \cup {output_symbol},
        !.start_state = IF is_start \/ M.start_state = None THEN state ELSE @]

Moore_add_transition_raises(M, src, dst) ==
    src \notin M.states \/ dst \notin M.states

Moore_add_transition(M, src, input_symbol, dst) ==
    IF Moore_add_transition_raises(M, src, dst) THEN M
    ELSE [M EXCEPT
            !.input_alphabet = @ \cup {input_symbol},
            !.transitions = Put(@, <<src, input_symbol>>, dst)]

\* remove_state that purges only the transitions leaving the state
Moore_remove_state_src_only(M, state_to_remove) ==
    IF state_to_remove \notin M.states THEN M
    ELSE LET kept == {k \in DOMAIN M.transitions : k[1] # state_to_remove}
         IN [M EXCEPT
                !.states = @ \ {state_to_remove},
                !.output_function =
                    IF state_to_remove \in DOMAIN @
                    THEN Del(@, state_to_remove) ELSE @,
                !.start_state = IF @ = state_to_remove THEN None ELSE @,
                !.transitions = [k \in kept |-> M.transitions[k]]]

Moore_remove_state(M, state_to_remove) ==
    IF state_to_remove \notin M.states THEN M
    ELSE LET kept == {k \in DOMAIN M.transitions :
                        /\ k[1] # state_to_remove
                        /\ M.transitions[k] # state_to_remove}
         IN [M EXCEPT
                !.states = @ \ {state_to_remove},
                !.output_function =
                    IF state_to_remove \in DOMAIN @
                    THEN Del(@, state_to_remove) ELSE @,
                !.start_state = IF @ = state_to_remove THEN None ELSE @,
                !.transitions = [k \in kept |-> M.transitions[k]]]

\* output_function.pop(old_name) raises KeyError when old_name has no output
Moore_rename_state_raises(M, old_name, new_name) ==
    \/ old_name \notin M.states
    \/ (new_name \in M.states /\ new_name # old_name)
    \/ old_name \notin DOMAIN M.output_function

Moore_rename_state(M, old_name, new_name) ==
    IF \/ old_name \notin M.states
       \/ (new_name \in M.states /\ new_name # old_name)
    THEN M
    ELSE LET ren(s) == IF s = old_name THEN new_name ELSE s
             renamed == [M EXCEPT
                            !.states = (@ \ {old_name}) \cup {new_name},
                            !.start_state =
                                IF @ = old_name THEN new_name ELSE @]
             newkeys == {<<ren(k[1]), k[2]>> : k \in DOMAIN M.transitions}
             oldkey(nk) == CHOOSE k \in DOMAIN M.transitions :
                              <<ren(k[1]), k[2]>> = nk
         IN IF old_name \notin DOMAIN M.output_function THEN renamed
            ELSE [renamed EXCEPT
                    !.output_function =
                        Put(Del(@, old_name), new_name, @[old_name]),
                    !.transitions =
                        [nk \in newkeys |-> ren(M.transitions[oldkey(nk)])]]

Moore_remove_transition(M, src, input_symbol) ==
    IF <<src, input_symbol>> \in DOMAIN M.transitions
    THEN [M EXCEPT !.transitions = Del(@, <<src, input_symbol>>)]
    ELSE M

(***************************************************************************)
(* The editing session                                                     *)
(***************************************************************************)
Call(op, args, raised, val) ==
    [op |-> op, args |-> args, raised |-> raised, val |-> val]

\* The main menu opens one editor; each editor owns one freshly built object.
Init ==
    /\ kind \in {"automato", "pilha", "moore"}
    /\ gui = NoGui
    /\ aut = Automato
    /\ pda = AutomatoPilha
    /\ moore = MaquinaMoore
    /\ pre = (CASE kind = "automato" -> Automato
               [] kind = "pilha" -> AutomatoPilha
               [] OTHER -> MaquinaMoore)
    /\ ret = Call("init", NoArgs, FALSE, FALSE)

AddState ==
    /\ kind = "automato"
    /\ \E state \in StateNames, is_start \in BOOLEAN, is_final \in BOOLEAN :
        /\ aut' = add_state(aut, state, is_start, is_final)
        /\ ret' = Call("add_state", <<state, is_start, is_final>>, FALSE, FALSE)
    /\ pre' = aut
    /\ UNCHANGED <<gui, kind, pda, moore>>

AddTransition ==
    /\ kind = "automato"
    /\ NumTrans(aut) < MaxTrans
    /\ \E src \in StateNames, symbol \in Symbols, dst \in StateNames :
        /\ aut' = add_transition(aut, src, symbol, dst)
        /\ ret' = Call("add_transition", NoArgs,
                       add_transition_raises(aut, src, dst), FALSE)
    /\ pre' = aut
    /\ UNCHANGED <<gui, kind, pda, moore>>

RemoveState ==
    /\ kind = "automato"
    /\ \E state \in StateNames :
        /\ aut' = remove_state(aut, state)
        /\ ret' = Call("remove_state", <<state>>, FALSE, FALSE)
    /\ pre' = aut
    /\ UNCHANGED <<gui, kind, pda, moore>>

RenameState ==
    /\ kind = "automato"
    /\ \E old_name \in StateNames, new_name \in StateNames :
        /\ aut' = rename_state(aut, old_name, new_name)
        /\ ret' = Call("rename_state", <<old_name, new_name>>,
                       rename_state_raises(aut, old_name, new_name), FALSE)
    /\ pre' = aut
    /\ UNCHANGED <<gui, kind, pda, moore>>

RemoveTransition ==
    /\ kind = "automato"
    /\ \E src \in StateNames, symbol \in Symbols, dst \in StateNames :
        /\ aut' = remove_transition(aut, src, symbol, dst)
        /\ ret' = Call("remove_transition", NoArgs, FALSE, FALSE)
    /\ pre' = aut
    /\ UNCHANGED <<gui, kind, pda, moore>>

PilhaAddState ==
    /\ kind = "pilha"
    /\ \E state \in StateNames, is_start \in BOOLEAN, is_final \in BOOLEAN :
        /\ pda' = Pilha_add_state(pda, state, is_start, is_final)
        /\ ret' = Call("add_state", <<state, is_start, is_final>>, FALSE, FALSE)
    /\ pre' = pda
    /\ UNCHANGED <<gui, kind, aut, moore>>

PilhaAddTransition ==
    /\ kind = "pilha"
    /\ Pilha_NumTrans(pda) < MaxTrans
    /\ \E src \in StateNames, label \in PilhaLabels, dst \in StateNames :
        /\ pda' = Pilha_add_transition(pda, src, label[1], label[2], dst,
                                       label[3])
        /\ ret' = Call("add_transition", NoArgs,
                       Pilha_add_transition_raises(pda, src, dst), FALSE)
    /\ pre' = pda
    /\ UNCHANGED <<gui, kind, aut, moore>>

PilhaRemoveState ==
    /\ kind = "pilha"
    /\ \E state \in StateNames :
        /\ pda' = Pilha_remove_state(pda, state)
        /\ ret' = Call("remove_state", <<state>>, FALSE, FALSE)
    /\ pre' = pda
    /\ UNCHANGED <<gui, kind, aut, moore>>

PilhaRenameState ==
    /\ kind = "pilha"
    /\ \E old_name \in StateNames, new_name \in StateNames :
        /\ pda' = Pilha_rename_state(pda, old_name, new_name)
        /\ ret' = Call("rename_state", <<old_name, new_name>>,
                       Pilha_rename_state_raises(pda, old_name, new_name),
                       FALSE)
    /\ pre' = pda
    /\ UNCHANGED <<gui, kind, aut, moore>>

PilhaRemoveTransition ==
    /\ kind = "pilha"
    /\ \E src \in StateNames, label \in PilhaLabels, dst \in StateNames :
        /\ pda' = remove_pda_transition(pda, src, label[1], label[2], dst,
                                        label[3])
        /\ ret' = Call("remove_transition", NoArgs,
                       FALSE, FALSE)
    /\ pre' = pda
    /\ UNCHANGED <<gui, kind, aut, moore>>

MooreAddState ==
    /\ kind = "moore"
    /\ \E state \in StateNames, output_symbol \in MooreOutputs,
          is_start \in BOOLEAN :
        /\ moore' = Moore_add_state(moore, state, output_symbol, is_start)
        /\ ret' = Call("add_state", <<state, output_symbol, is_start>>,
                       FALSE, FALSE)
    /\ pre' = moore
    /\ UNCHANGED <<gui, kind, aut, pda>>

MooreAddTransition ==
    /\ kind = "moore"
    /\ Moore_NumTrans(moore) < MaxTrans
    /\ \E src \in StateNames, input_symbol \in MooreInputs, dst \in StateNames :
        /\ moore' = Moore_add_transition(moore, src, input_symbol, dst)
        /\ ret' = Call("add_transition", NoArgs,
                       Moore_add_transition_raises(moore, src, dst), FALSE)
    /\ pre' = moore
    /\ UNCHANGED <<gui, kind, aut, pda>>

MooreRemoveState ==
    /\ kind = "moore"
    /\ \E state \in StateNames :
        /\ moore' = Moore_remove_state(moore, state)
        /\ ret' = Call("remove_state", <<state>>, FALSE, FALSE)
    /\ pre' = moore
    /\ UNCHANGED <<gui, kind, aut, pda>>

MooreRenameState ==
    /\ kind = "moore"
    /\ \E old_name \in StateNames, new_name \in StateNames :
        /\ moore' = Moore_rename_state(moore, old_name, new_name)
        /\ ret' = Call("rename_state", <<old_name, new_name>>,
                       Moore_rename_state_raises(moore, old_name, new_name),
                       FALSE)
    /\ pre' = moore
    /\ UNCHANGED <<gui, kind, aut, pda>>

MooreRemoveTransition ==
    /\ kind = "moore"
    /\ \E src \in StateNames, input_symbol \in MooreInputs :
        /\ moore' = Moore_remove_transition(moore, src, input_symbol)
        /\ ret' = Call("remove_transition", NoArgs,
                       FALSE, FALSE)
    /\ pre' = moore
    /\ UNCHANGED <<gui, kind, aut, pda>>

IsDfa ==
    /\ kind = "automato"
    /\ ret' = Call("is_dfa", NoArgs, FALSE, is_dfa(aut))
    /\ pre' = aut
    /\ UNCHANGED <<gui, kind, aut, pda, moore>>

\* minimize() completes self, refines, removes the error state from self and
\* returns a new automaton; it raises for an automaton that is no DFA
Minimize ==
    /\ kind = "automato"
    /\ \E order \in SymOrders :
        LET r == minimize(aut, order) IN
        /\ aut' = r.self
        /\ ret' = Call("minimize", NoArgs, minimize_raises(aut), r.newDFA)
    /\ pre' = aut
    /\ UNCHANGED <<gui, kind, pda, moore>>

\* to_dfa() returns None when no start state is set
ToDfa ==
    /\ kind = "automato"
    /\ \E order \in SymOrders :
        ret' = Call("to_dfa", NoArgs, FALSE,
                    IF to_dfa_returns_none(aut) THEN NoAutomato
                    ELSE to_dfa(aut, order))
    /\ pre' = aut
    /\ UNCHANGED <<gui, kind, aut, pda, moore>>

Next ==
    \/ AddState
    \/ AddTransition
    \/ RemoveState
    \/ RenameState
    \/ RemoveTransition
    \/ PilhaAddState
    \/ PilhaAddTransition
    \/ PilhaRemoveState
    \/ PilhaRenameState
    \/ PilhaRemoveTransition
    \/ MooreAddState
    \/ MooreAddTransition
    \/ MooreRemoveState
    \/ MooreRenameState
    \/ MooreRemoveTransition
    \/ IsDfa
    \/ Minimize

Spec == Init /\ [][Next]_vars

\* to_json: "output_function" is the dict itself, its members in insertion
\* order; a transition is one {src, input, dst} entry
Moore_to_json(M, reversed) ==
    [states |-> ListOfSet(M.states, reversed),
     start_state |-> JsonOfName(M.start_state),
     input_alphabet |-> ListOfSet(M.input_alphabet \ {""}, reversed),
     output_alphabet |-> ListOfSet(M.output_alphabet \ {""}, reversed),
     output_function |->
        LET members == ListOfSet(DOMAIN M.output_function, reversed)
        IN [i \in 1..Len(members) |->
                <<members[i], M.output_function[members[i]]>>],
     transitions |->
        LET keys == ListOfSet(DOMAIN M.transitions, reversed)
        IN [i \in 1..Len(keys) |->
                [src |-> keys[i][1], input |-> keys[i][2],
                 dst |-> M.transitions[keys[i]]]]]

RECURSIVE Moore_from_json_states(_, _, _)
\* for state, output in output_func.items(): machine.add_state(...)
Moore_from_json_states(machine, output_func, start_state) ==
    IF output_func = <<>> THEN machine
    ELSE LET member == Head(output_func)
         IN Moore_from_json_states(
                Moore_add_state(machine, member[1], member[2],
                                member[1] = start_state),
                Tail(output_func), start_state)

RECURSIVE Moore_from_json_transitions(_, _)
\* for t in data.get("transitions", []): an entry that lacks a key (KeyError)
\* or names an unknown state (ValueError) is passed over
Moore_from_json_transitions(machine, transitions_data) ==
    IF transitions_data = <<>> THEN machine
    ELSE LET t == Head(transitions_data)
         IN Moore_from_json_transitions(
                IF {"src", "input", "dst"} \ DOMAIN t # {} THEN machine
                ELSE Moore_add_transition(machine, t.src, t.input, t.dst),
                Tail(transitions_data))

\* the MaquinaMoore from_json returns; first is next(iter(machine.states))
Moore_from_json(data, first) ==
    LET states == Moore_from_json_states(MaquinaMoore, data.output_function,
                                         NameOfJson(data.start_state))
        alphabets == [states EXCEPT
                        !.input_alphabet = {},
                        !.output_alphabet =
                            {data.output_function[i][2] :
                                i \in 1..Len(data.output_function)}]
        machine == Moore_from_json_transitions(alphabets, data.transitions)
    IN IF machine.start_state \notin machine.states
       THEN [machine EXCEPT
                !.start_state = IF machine.states # {} THEN first ELSE None]
       ELSE machine

\* self.output_function.get(state, '')
Moore_output_of(M, state) ==
    IF state \in DOMAIN M.output_function THEN M.output_function[state]
    ELSE ""

\* an output stream that begins empty
Moore_initial_output_empty(M) == ""

\* the output before any input is read: that of the start state
Moore_initial_output(M) == Moore_output_of(M, M.start_state)

\* a stuck machine that returns the output produced so far
Moore_stuck_output_partial(output_str) == output_str

\* the output of a stuck machine: return history, None
Moore_stuck_output(output_str) == None

\* the symbols on the transitions that leave state (epsilon is no special
\* symbol of a Moore machine)
Moore_possible_symbols(M, state) ==
    {k[2] : k \in {j \in DOMAIN M.transitions : j[1] = state}}

RECURSIVE Moore_simulate_loop(_, _, _, _, _, _, _)
\* the while loop of simulate_history; reversed is the iteration order of
\* possible_symbols
Moore_simulate_loop(M, input_str, current_state, output_str, input_idx, history, reversed) ==
    IF input_idx >= Len(input_str)
    THEN [history |-> history, output |-> output_str]
    ELSE LET sorted_symbols ==
                SortedByLen(ListOfSet(Moore_possible_symbols(M, current_state),
                                      reversed))
             remaining_input == Suffix(input_str, input_idx)
             matching == SelectSeq(sorted_symbols,
                                   LAMBDA x : StartsWith(remaining_input, x))
         IN IF matching = <<>>
            THEN [history |-> history,
                  output |-> Moore_stuck_output(output_str)]
            ELSE LET symbol == Head(matching)
                     next_state == M.transitions[<<current_state, symbol>>]
                     new_output == output_str \o Moore_output_of(M, next_state)
                     new_idx == input_idx + Len(symbol)
                 IN Moore_simulate_loop(M, input_str, next_state, new_output,
                        new_idx,
                        Append(history, <<next_state, new_output, new_idx>>),
                        reversed)

\* simulate_history of MaquinaMoore: the history of (state, output so far,
\* cursor) and the final output, None when the machine got stuck
Moore_simulate_history(M, input_str, reversed) ==
    IF M.start_state \in {None, ""}
    THEN [history |-> <<>>, output |-> None]
    ELSE LET output_str == Moore_initial_output(M)
         IN Moore_simulate_loop(M, input_str, M.start_state, output_str, 0,
                                <<<<M.start_state, output_str, 0>>>>, reversed)

(***************************************************************************)
(* Editing session with saving and loading                                 *)
(***************************************************************************)
ToJson ==
    /\ kind = "automato"
    /\ \E reversed \in BOOLEAN :
        ret' = Call("to_json", NoArgs, FALSE, to_json(aut, reversed))
    /\ pre' = aut
    /\ UNCHANGED <<gui, kind, aut, pda, moore>>

\* Automato.from_json(text) of the text just written: a class method, its
\* value is the automaton loaded
FromJson ==
    /\ kind = "automato"
    /\ ret.op = "to_json"
    /\ ret' = Call("from_json", NoArgs, from_json_raises(ret.val),
                   from_json(ret.val))
    /\ pre' = aut
    /\ UNCHANGED <<gui, kind, aut, pda, moore>>

PilhaToJson ==
    /\ kind = "pilha"
    /\ \E reversed \in BOOLEAN :
        ret' = Call("to_json", NoArgs, FALSE, Pilha_to_json(pda, reversed))
    /\ pre' = pda
    /\ UNCHANGED <<gui, kind, aut, pda, moore>>

\* AutomatoPilha.from_json(text) of the text just written
PilhaFromJson ==
    /\ kind = "pilha"
    /\ ret.op = "to_json"
    /\ \E first \in (IF pda.states = {} THEN {None} ELSE pda.states) :
        ret' = Call("from_json", NoArgs, FALSE,
                    Pilha_from_json(ret.val, first))
    /\ pre' = pda
    /\ UNCHANGED <<gui, kind, aut, pda, moore>>

MooreToJson ==
    /\ kind = "moore"
    /\ \E reversed \in BOOLEAN :
        ret' = Call("to_json", NoArgs, FALSE, Moore_to_json(moore, reversed))
    /\ pre' = moore
    /\ UNCHANGED <<gui, kind, aut, pda, moore>>

\* MaquinaMoore.from_json(text) of the text just written
MooreFromJson ==
    /\ kind = "moore"
    /\ ret.op = "to_json"
    /\ \E first \in (IF moore.states = {} THEN {None} ELSE moore.states) :
        ret' = Call("from_json", NoArgs, FALSE,
                    Moore_from_json(ret.val, first))
    /\ pre' = moore
    /\ UNCHANGED <<gui, kind, aut, pda, moore>>

\* a state name no edited structure holds
UnknownState == "q9"

\* a JSON object without one of its members
WithoutField(object, field) ==
    [f \in DOMAIN object \ {field} |-> object[f]]

\* Automato.from_json of the text just written with one transition entry
\* spoiled: its "symbol" member is missing, or its destination is no state.
\* A KeyError leaves from_json without a value.
FromJsonMalformed ==
    /\ kind = "automato"
    /\ ret.op = "to_json"
    /\ \E i \in 1..Len(ret.val.transitions),
          damage \in {"missing field", "unknown state"} :
        LET t == ret.val.transitions[i]
            bad == IF damage = "missing field" THEN WithoutField(t, "symbol")
                   ELSE [t EXCEPT !.dsts = <<UnknownState>>]
            data == [ret.val EXCEPT !.transitions[i] = bad]
        IN ret' = Call("from_json", <<<<t.src, t.symbol>>, damage>>,
                       from_json_raises(data),
                       IF from_json_raises(data) THEN NoAutomato
                       ELSE from_json(data))
    /\ pre' = aut
    /\ UNCHANGED <<gui, kind, aut, pda, moore>>

\* AutomatoPilha.from_json with one transition spoiled: its key has two parts
\* only, or its destination is no state
PilhaFromJsonMalformed ==
    /\ kind = "pilha"
    /\ ret.op = "to_json"
    /\ \E key \in DOMAIN ret.val.transitions,
          damage \in {"unparsable key", "unknown state"},
          first \in (IF pda.states = {} THEN {None} ELSE pda.states) :
        LET parts == Split2(key)
            dests == ret.val.transitions[key]
            data == [ret.val EXCEPT
                        !.transitions =
                            IF damage = "unparsable key"
                            THEN Put(Del(@, key), parts[1] \o "," \o parts[2],
                                     dests)
                            ELSE Put(@, key,
                                     <<<<UnknownState, dests[1][2]>>>>)]
        IN ret' = Call("from_json", <<parts, damage>>, FALSE,
                       Pilha_from_json(data, first))
    /\ pre' = pda
    /\ UNCHANGED <<gui, kind, aut, pda, moore>>

\* MaquinaMoore.from_json with one transition entry spoiled: its "dst" member
\* is missing, or its destination is no state
MooreFromJsonMalformed ==
    /\ kind = "moore"
    /\ ret.op = "to_json"
    /\ \E i \in 1..Len(ret.val.transitions),
          damage \in {"missing field", "unknown state"},
          first \in (IF moore.states = {} THEN {None} ELSE moore.states) :
        LET t == ret.val.transitions[i]
            bad == IF damage = "missing field" THEN WithoutField(t, "dst")
                   ELSE [t EXCEPT !.dst = UnknownState]
            data == [ret.val EXCEPT !.transitions[i] = bad]
        IN ret' = Call("from_json", <<<<t.src, t.input>>, damage>>,
                       FALSE, Moore_from_json(data, first))
    /\ pre' = moore
    /\ UNCHANGED <<gui, kind, aut, pda, moore>>

NextJson ==
    \/ AddState
    \/ AddTransition
    \/ RemoveState
    \/ RenameState
    \/ RemoveTransition
    \/ PilhaAddState
    \/ PilhaAddTransition
    \/ PilhaRemoveState
    \/ PilhaRenameState
    \/ PilhaRemoveTransition
    \/ MooreAddState
    \/ MooreAddTransition
    \/ MooreRemoveState
    \/ MooreRenameState
    \/ MooreRemoveTransition
    \/ ToJson
    \/ FromJson
    \/ PilhaToJson
    \/ PilhaFromJson
    \/ MooreToJson
    \/ MooreFromJson
    \/ FromJsonMalformed
    \/ PilhaFromJsonMalformed
    \/ MooreFromJsonMalformed

SpecJson == Init /\ [][NextJson]_vars

(***************************************************************************)
(* Simulation of a given automaton                                         *)
(***************************************************************************)
\* the most transitions of a simulated automaton, and the longest input
MaxSimTrans == 3
MaxLen == 3

SimStates == {"q0", "q1"}
SimSymbols == {"a", "b", "ab", "&"}
InputChars == {"a", "b"}

RECURSIVE Words(_)
Words(n) ==
    IF n = 0 THEN {""}
    ELSE LET shorter == Words(n - 1)
         IN shorter \cup {w \o c : w \in shorter, c \in InputChars}

Inputs == Words(MaxLen)

\* the subsets of U with at most n members
SetsUpTo(U, n) == {{}} \cup {{f[i] : i \in 1..n} : f \in [1..n -> U]}

\* the Automato that add_state and add_transition build from these states,
\* flags and transitions (start = None: the start state was removed since)
AutomatoOf(states, start, finals, T) ==
    [states |-> states, start_state |-> start, final_states |-> finals,
     transitions |->
        [k \in {<<t[1], t[2]>> : t \in T} |->
            {t[3] : t \in {u \in T : u[1] = k[1] /\ u[2] = k[2]}}],
     alphabet |-> {t[2] : t \in T} \ {EPSILON}]

InitSim ==
    /\ kind = "automato"
    /\ gui = NoGui
    /\ \E start \in {None, "q0"}, finals \in SUBSET SimStates,
          T \in SetsUpTo(SimStates \X SimSymbols \X SimStates, MaxSimTrans) :
            aut = AutomatoOf(SimStates, start, finals, T)
    /\ pda = AutomatoPilha
    /\ moore = MaquinaMoore
    /\ pre = aut
    /\ ret = Call("init", NoArgs, FALSE, FALSE)

\* simulate_history leaves the automaton as it is: one call per drawn automaton
\* and input shows every result
SimulateHistory ==
    /\ kind = "automato"
    /\ ret.op = "init"
    /\ \E input_str \in Inputs, order \in SymOrders :
        ret' = Call("simulate_history", <<input_str>>, FALSE,
                    simulate_history(aut, input_str, order))
    /\ pre' = aut
    /\ UNCHANGED <<gui, kind, aut, pda, moore>>

NextSim == SimulateHistory

SpecSim == InitSim /\ [][NextSim]_vars

(***************************************************************************)
(* Subset construction of a given NFA over single-character symbols        *)
(***************************************************************************)
\* the most transitions of a converted NFA
MaxNfaTrans == 3

NfaStates == {"q0", "q1", "q2"}
NfaSymbols == {"a", "b", "&"}

InitDfa ==
    /\ kind = "automato"
    /\ gui = NoGui
    /\ \E start \in {None, "q0"}, finals \in SUBSET NfaStates,
          T \in SetsUpTo(NfaStates \X NfaSymbols \X NfaStates, MaxNfaTrans) :
            aut = AutomatoOf(NfaStates, start, finals, T)
    /\ pda = AutomatoPilha
    /\ moore = MaquinaMoore
    /\ pre = aut
    /\ ret = Call("init", NoArgs, FALSE, FALSE)

\* to_dfa leaves the automaton as it is: one call per drawn automaton
ToDfaOnce == ret.op = "init" /\ ToDfa

\* to_regular_grammar() raises when no start state is set; the productions
\* it collects are the value otherwise
ToRegularGrammar ==
    /\ kind = "automato"
    /\ ret.op = "init"
    /\ ret' = Call("to_regular_grammar", NoArgs, to_regular_grammar_raises(aut),
                   IF to_regular_grammar_raises(aut) THEN <<>>
                   ELSE to_regular_grammar_prods(aut))
    /\ pre' = aut
    /\ UNCHANGED <<gui, kind, aut, pda, moore>>

NextDfa == ToDfaOnce \/ ToRegularGrammar

SpecDfa == InitDfa /\ [][NextDfa]_vars

(***************************************************************************)
(* Epsilon-closure of a state set of a given NFA                           *)
(***************************************************************************)
EpsilonClosure ==
    /\ kind = "automato"
    /\ ret.op = "init"
    /\ \E states \in SUBSET aut.states :
        ret' = Call("epsilon_closure", <<states>>, FALSE,
                    epsilon_closure(aut, states))
    /\ pre' = aut
    /\ UNCHANGED <<gui, kind, aut, pda, moore>>

NextClosure == EpsilonClosure

SpecClosure == InitDfa /\ [][NextClosure]_vars

(***************************************************************************)
(* Simulation of a given pushdown automaton                                *)
(***************************************************************************)
\* the most transitions of a simulated pushdown automaton, and its longest
\* input
MaxPilhaTrans == 2
MaxPilhaLen == 2

PilhaStates == {"q0", "q1"}
PilhaInputs == {"a", "ab", "&"}
PilhaPops == {"&", "Z", "A"}
PilhaPushStrings == {"&", "A", "ZA"}

\* the transitions (src, input, pop, dst, push) to draw from
PilhaArcs ==
    PilhaStates \X PilhaInputs \X PilhaPops \X PilhaStates \X PilhaPushStrings

\* an epsilon move that leaves the stack longer than it found it
PilhaEpsilonGrows(t) ==
    /\ t[2] = EPSILON
    /\ t[5] # EPSILON
    /\ Len(t[5]) > (IF t[3] = EPSILON THEN 0 ELSE 1)

\* no growing epsilon move lies on a cycle of epsilon moves: the stacks of
\* an epsilon closure are then bounded and _get_epsilon_closure returns
PilhaClosureReturns(T) ==
    \A t \in T :
        PilhaEpsilonGrows(t) =>
            /\ t[1] # t[4]
            /\ ~\E u \in T : u[2] = EPSILON /\ u[1] = t[4] /\ u[4] = t[1]

\* the AutomatoPilha that add_state and add_transition build from these
\* states, flags and transitions
PilhaOf(states, start, finals, T) ==
    [states |-> states, start_state |-> start, final_states |-> finals,
     start_stack_symbol |-> "Z",
     transitions |->
        [k \in {<<t[1], t[2], t[3]>> : t \in T} |->
            {<<t[4], t[5]>> :
                t \in {u \in T : <<u[1], u[2], u[3]>> = k}}],
     input_alphabet |-> {t[2] : t \in T} \ {EPSILON},
     stack_alphabet |->
        IF T = {} THEN {}
        ELSE ({t[3] : t \in T} \cup UNION {Chars(t[5]) : t \in T} \cup {"Z"})
                \ {EPSILON}]

InitPilha ==
    /\ kind = "pilha"
    /\ gui = NoGui
    /\ aut = Automato
    /\ \E start \in {None, "q0"}, finals \in SUBSET PilhaStates,
          T \in {U \in SetsUpTo(PilhaArcs, MaxPilhaTrans) :
                    PilhaClosureReturns(U)} :
            pda = PilhaOf(PilhaStates, start, finals, T)
    /\ moore = MaquinaMoore
    /\ pre = pda
    /\ ret = Call("init", NoArgs, FALSE, FALSE)

\* simulate_history leaves the automaton as it is: one call per drawn
\* automaton, input and iteration order shows every result
PilhaSimulateHistory ==
    /\ kind = "pilha"
    /\ ret.op = "init"
    /\ \E input_str \in Words(MaxPilhaLen), reversed \in BOOLEAN :
        ret' = Call("simulate_history", <<input_str>>, FALSE,
                    Pilha_simulate_history(pda, input_str, reversed))
    /\ pre' = pda
    /\ UNCHANGED <<gui, kind, aut, pda, moore>>

NextPilha == PilhaSimulateHistory

SpecPilha == InitPilha /\ [][NextPilha]_vars

(***************************************************************************)
(* Simulation of the pushdown automaton of the balanced parentheses        *)
(***************************************************************************)
\* the longest input of parentheses
MaxParenLen == 6

RECURSIVE ParenWords(_)
ParenWords(n) ==
    IF n = 0 THEN {""}
    ELSE LET shorter == ParenWords(n - 1)
         IN shorter \cup {w \o c : w \in shorter, c \in {"(", ")"}}

\* the automaton built by add_state and add_transition: q0 pushes "(" on
\* "(", pops "(" on ")", and moves to the final state qf on epsilon when Z is
\* on top, popping Z and pushing bottom ("&": nothing, "Z": Z again)
ParenPilha(bottom) ==
    LET p1 == Pilha_add_state(AutomatoPilha, "q0", TRUE, FALSE)
        p2 == Pilha_add_state(p1, "qf", FALSE, TRUE)
        p3 == Pilha_add_transition(p2, "q0", "(", "&", "q0", "(")
        p4 == Pilha_add_transition(p3, "q0", ")", "(", "q0", "&")
    IN Pilha_add_transition(p4, "q0", "&", "Z", "qf", bottom)

InitParen ==
    /\ kind = "pilha"
    /\ gui = NoGui
    /\ aut = Automato
    /\ \E bottom \in {"&", "Z"} : pda = ParenPilha(bottom)
    /\ moore = MaquinaMoore
    /\ pre = pda
    /\ ret = Call("init", NoArgs, FALSE, FALSE)

PilhaSimulate ==
    /\ kind = "pilha"
    /\ ret.op = "init"
    /\ \E input_str \in ParenWords(MaxParenLen), reversed \in BOOLEAN :
        ret' = Call("simulate", <<input_str, reversed>>, FALSE,
                    Pilha_simulate(pda, input_str, reversed))
    /\ pre' = pda
    /\ UNCHANGED <<gui, kind, aut, pda, moore>>

NextParen == PilhaSimulate

SpecParen == InitParen /\ [][NextParen]_vars

(***************************************************************************)
(* Single moves of a given pushdown automaton                              *)
(***************************************************************************)
\* the most transitions of the automaton, and the deepest stack a move
\* starts from
MaxMoveTrans == 2
MaxStack == 2

MoveInputs == {"a", "&"}
MovePushStrings == {"&", "A", "ZA", "A&"}

MoveArcs ==
    PilhaStates \X MoveInputs \X PilhaPops \X PilhaStates \X MovePushStrings

\* the stacks of at most n elements over the symbols in S
StacksUpTo(S, n) == UNION {[1..k -> S] : k \in 0..n}

\* the characters that the transitions of P can put on a stack that starts
\* as (start_stack_symbol,)
StackChars(P) ==
    {P.start_stack_symbol}
    \cup UNION {Chars(d[2]) :
            d \in {e \in UNION {P.transitions[k] : k \in DOMAIN P.transitions} :
                    e[2] # EPSILON}}

InitMove ==
    /\ kind = "pilha"
    /\ gui = NoGui
    /\ aut = Automato
    /\ \E T \in {U \in SetsUpTo(MoveArcs, MaxMoveTrans) :
                    PilhaClosureReturns(U)} :
            pda = PilhaOf(PilhaStates, "q0", {}, T)
    /\ moore = MaquinaMoore
    /\ pre = pda
    /\ ret = Call("init", NoArgs, FALSE, FALSE)

\* _move_with_symbol on one configuration
PilhaMoveWithSymbol ==
    /\ kind = "pilha"
    /\ ret.op = "init"
    /\ \E state \in pda.states, symbol \in pda.input_alphabet,
          stack \in StacksUpTo(StackChars(pda), MaxStack) :
        ret' = Call("_move_with_symbol", <<<<state, 0, stack>>, symbol>>,
                       FALSE,
                       Pilha_move_with_symbol(pda, {<<state, 0, stack>>},
                                              symbol))
    /\ pre' = pda
    /\ UNCHANGED <<gui, kind, aut, pda, moore>>

\* _get_epsilon_closure on one configuration
PilhaGetEpsilonClosure ==
    /\ kind = "pilha"
    /\ ret.op = "init"
    /\ \E state \in pda.states, reversed \in BOOLEAN,
          stack \in StacksUpTo(StackChars(pda), MaxStack) :
        ret' = Call("_get_epsilon_closure", <<<<state, 0, stack>>>>,
                       FALSE,
                       Pilha_get_epsilon_closure(pda, {<<state, 0, stack>>},
                                                 reversed))
    /\ pre' = pda
    /\ UNCHANGED <<gui, kind, aut, pda, moore>>

NextMove == PilhaMoveWithSymbol \/ PilhaGetEpsilonClosure

SpecMove == InitMove /\ [][NextMove]_vars

(***************************************************************************)
(* Simulation of a given Moore machine                                     *)
(***************************************************************************)
MooreSimStates == {"q0", "q1"}
MooreSimSymbols == {"a", "b", "ab"}

\* the MaquinaMoore that add_state and add_transition build: output gives
\* every state its output, delta each (state, symbol) one destination or none
MooreOf(states, start, output, delta) ==
    [states |-> states, start_state |-> start,
     output_function |-> output,
     output_alphabet |-> {output[q] : q \in states},
     transitions |->
        [k \in {j \in DOMAIN delta : delta[j] # None} |-> delta[k]],
     input_alphabet |-> {k[2] : k \in {j \in DOMAIN delta : delta[j] # None}}]

InitMoore ==
    /\ kind = "moore"
    /\ gui = NoGui
    /\ aut = Automato
    /\ pda = AutomatoPilha
    /\ \E start \in {None, "q0"}, output \in [MooreSimStates -> MooreOutputs],
          delta \in [MooreSimStates \X MooreSimSymbols
                        -> MooreSimStates \cup {None}] :
            moore = MooreOf(MooreSimStates, start, output, delta)
    /\ pre = moore
    /\ ret = Call("init", NoArgs, FALSE, FALSE)

MooreSimulateHistory ==
    /\ kind = "moore"
    /\ ret.op = "init"
    /\ \E input_str \in Inputs, reversed \in BOOLEAN :
        ret' = Call("simulate_history", <<input_str>>, FALSE,
                    Moore_simulate_history(moore, input_str, reversed))
    /\ pre' = moore
    /\ UNCHANGED <<gui, kind, aut, pda, moore>>

NextMoore == MooreSimulateHistory

SpecMoore == InitMoore /\ [][NextMoore]_vars

(***************************************************************************)
(* Simulation of a given automaton or pushdown automaton under every       *)
(* iteration order of its sets                                             *)
(***************************************************************************)
InitOrder == InitSim \/ InitPilha

NextOrder == SimulateHistory \/ PilhaSimulateHistory

SpecOrder == InitOrder /\ [][NextOrder]_vars

(***************************************************************************)
(* Subset construction of a given NFA, multi-character symbols included    *)
(***************************************************************************)
InitSubset == InitDfa \/ InitSim

NextSubset == ToDfaOnce

SpecSubset == InitSubset /\ [][NextSubset]_vars

(***************************************************************************)
(* Regular grammar of a given automaton                                    *)
(***************************************************************************)
\* the most transitions of an automaton turned into a grammar
MaxGrammarTrans == 3

\* one state carries the first name that _new_nt would hand out
GrammarStates == {"q0", "__G0"}

\* symbols of one, two and three characters, and epsilon
GrammarSymbols == {"a", "ab", "abc", "&"}

InitGrammar ==
    /\ kind = "automato"
    /\ gui = NoGui
    /\ \E start \in {None} \cup GrammarStates, finals \in SUBSET GrammarStates,
          T \in SetsUpTo(GrammarStates \X GrammarSymbols \X GrammarStates,
                         MaxGrammarTrans) :
            aut = AutomatoOf(GrammarStates, start, finals, T)
    /\ pda = AutomatoPilha
    /\ moore = MaquinaMoore
    /\ pre = aut
    /\ ret = Call("init", NoArgs, FALSE, FALSE)

\* to_regular_grammar(strict) raises when no start state is set and returns
\* the text of the grammar otherwise
ToRegularGrammarText ==
    /\ kind = "automato"
    /\ ret.op = "init"
    /\ \E strict \in BOOLEAN, reversed \in BOOLEAN :
        ret' = Call("to_regular_grammar", <<strict>>,
                    to_regular_grammar_raises(aut),
                    IF to_regular_grammar_raises(aut) THEN ""
                    ELSE to_regular_grammar(aut, strict, reversed))
    /\ pre' = aut
    /\ UNCHANGED <<gui, kind, aut, pda, moore>>

NextGrammar == ToRegularGrammarText

SpecGrammar == InitGrammar /\ [][NextGrammar]_vars

(***************************************************************************)
(* Minimization of a given DFA                                             *)
(***************************************************************************)
MinStates == {"q0", "q1", "q2"}
MinSymbols == {"a", "b"}

\* a partial transition function: each (state, symbol) has one destination
\* or none
PartialFunctions ==
    [MinStates \X MinSymbols -> MinStates \cup {None}]

InitMin ==
    /\ kind = "automato"
    /\ gui = NoGui
    /\ \E start \in {None, "q0"}, finals \in SUBSET MinStates,
          delta \in PartialFunctions :
            aut = AutomatoOf(MinStates, start, finals,
                    {<<k[1], k[2], delta[k]>> :
                        k \in {x \in DOMAIN delta : delta[x] # None}})
    /\ pda = AutomatoPilha
    /\ moore = MaquinaMoore
    /\ pre = aut
    /\ ret = Call("init", NoArgs, FALSE, FALSE)

\* one call per drawn automaton
MinimizeOnce == ret.op = "init" /\ Minimize

\* m.minimize() where m is the automaton the first call returned: m is the
\* object at hand from here on
MinimizeResult ==
    /\ kind = "automato"
    /\ ret.op = "minimize" /\ ~ret.raised /\ ret.args = NoArgs
    /\ \E order \in SymOrders :
        LET r == minimize(ret.val, order) IN
        /\ aut' = r.self
        /\ ret' = Call("minimize", <<"result">>, minimize_raises(ret.val),
                       r.newDFA)
    /\ pre' = ret.val
    /\ UNCHANGED <<gui, kind, pda, moore>>

NextMin == MinimizeOnce \/ MinimizeResult

SpecMin == InitMin /\ [][NextMin]_vars

(***************************************************************************)
(* Minimization of a DFA one of whose states bears the name minimize()     *)
(* gives to a merged group                                                 *)
(***************************************************************************)
NamedStates == {"q0", "q1", "q2", "{q0,q1}"}
NamedSymbols == {"a"}

InitNamed ==
    /\ kind = "automato"
    /\ gui = NoGui
    /\ \E start \in {None, "q0"}, finals \in SUBSET NamedStates,
          delta \in [NamedStates \X NamedSymbols -> NamedStates \cup {None}] :
            aut = AutomatoOf(NamedStates, start, finals,
                    {<<k[1], k[2], delta[k]>> :
                        k \in {x \in DOMAIN delta : delta[x] # None}})
    /\ pda = AutomatoPilha
    /\ moore = MaquinaMoore
    /\ pre = aut
    /\ ret = Call("init", NoArgs, FALSE, FALSE)

SpecNamed == InitNamed /\ [][NextMin]_vars

(***************************************************************************)
(* Properties of the editing operations                                    *)
(***************************************************************************)
\* (source, (input symbol, pop symbol, push string), destination)
Pilha_Triples(P) ==
    UNION {{<<k[1], <<k[2], k[3], d[2]>>, d[1]>> : d \in P.transitions[k]} :
                k \in DOMAIN P.transitions}

Moore_Triples(M) ==
    {<<k[1], k[2], M.transitions[k]>> : k \in DOMAIN M.transitions}

\* C6: add_transition naming a source or destination that is not a state
\* raises, and the object (states, transitions, alphabets, start state, final
\* states) is as it was before the call, for Automato, AutomatoPilha and
\* MaquinaMoore: checked for the call just made and for every call that
\* could be made on the object now.
C6_AddTransitionUnknownStateRaisesUnchanged ==
    /\ (ret.op = "add_transition" /\ ret.raised) =>
            (CASE kind = "automato" -> aut = pre
               [] kind = "pilha" -> pda = pre
               [] OTHER -> moore = pre)
    /\ \A src \in StateNames, dst \in StateNames :
        /\ (src \notin aut.states \/ dst \notin aut.states) =>
                /\ add_transition_raises(aut, src, dst)
                /\ \A symbol \in Symbols :
                        add_transition(aut, src, symbol, dst) = aut
        /\ (src \notin pda.states \/ dst \notin pda.states) =>
                /\ Pilha_add_transition_raises(pda, src, dst)
                /\ \A l \in PilhaLabels :
                        Pilha_add_transition(pda, src, l[1], l[2], dst, l[3])
                            = pda
        /\ (src \notin moore.states \/ dst \notin moore.states) =>
                /\ Moore_add_transition_raises(moore, src, dst)
                /\ \A symbol \in MooreInputs :
                        Moore_add_transition(moore, src, symbol, dst) = moore

\* C6 witness: a failed add_transition on an object that has a state and a
\* transition already
C6_Witness ==
    /\ ret.op = "add_transition" /\ ret.raised
    /\ pre.states # {} /\ pre.transitions # <<>>

\* C7: on an Automato, every transition's source and every destination is a
\* state, the final states are states, and the start state is unset or a state
C7_AutomatoReferencesAreStates ==
    /\ \A k \in DOMAIN aut.transitions :
            k[1] \in aut.states /\ aut.transitions[k] \subseteq aut.states
    /\ aut.final_states \subseteq aut.states
    /\ aut.start_state = None \/ aut.start_state \in aut.states

\* C7 witness: a remove_state that took away a final state with transitions,
\* leaving a state and a transition behind
C7_Witness ==
    /\ kind = "automato" /\ ret.op = "remove_state"
    /\ ret.args[1] \in pre.final_states
    /\ Triples(pre) # Triples(aut)
    /\ aut.transitions # <<>>

\* C8: remove_state(s) removes exactly what mentions s
C8_RemoveStateFrame ==
    ret.op = "remove_state" =>
        LET s == ret.args[1] IN
        CASE kind = "automato" ->
                /\ aut.states = pre.states \ {s}
                /\ Triples(aut) = {t \in Triples(pre) : t[1] # s /\ t[3] # s}
                /\ \A k \in DOMAIN aut.transitions : aut.transitions[k] # {}
                /\ aut.final_states = pre.final_states \ {s}
                /\ aut.start_state =
                        (IF pre.start_state = s THEN None ELSE pre.start_state)
          [] kind = "pilha" ->
                /\ pda.states = pre.states \ {s}
                /\ Pilha_Triples(pda) =
                        {t \in Pilha_Triples(pre) : t[1] # s /\ t[3] # s}
                /\ \A k \in DOMAIN pda.transitions :
                        k[1] # s /\ \A d \in pda.transitions[k] : d[1] # s
                /\ pda.final_states = pre.final_states \ {s}
                /\ pda.start_state =
                        (IF pre.start_state = s THEN None ELSE pre.start_state)
          [] OTHER ->
                /\ moore.states = pre.states \ {s}
                /\ Moore_Triples(moore) =
                        {t \in Moore_Triples(pre) : t[1] # s /\ t[3] # s}
                /\ DOMAIN moore.output_function =
                        (DOMAIN pre.output_function) \ {s}
                /\ \A q \in DOMAIN moore.output_function :
                        moore.output_function[q] = pre.output_function[q]
                /\ moore.start_state =
                        (IF pre.start_state = s THEN None ELSE pre.start_state)

\* C8 witness: a Moore machine lost its start state, a transition into it,
\* and kept a transition between other states
C8_Witness ==
    /\ kind = "moore" /\ ret.op = "remove_state"
    /\ pre.start_state = ret.args[1]
    /\ \E t \in Moore_Triples(pre) : t[3] = ret.args[1] /\ t[1] # ret.args[1]
    /\ Moore_Triples(moore) # {}

\* the same case on an Automato and on an AutomatoPilha
C8_WitnessAutomato ==
    /\ kind = "automato" /\ ret.op = "remove_state"
    /\ ret.args[1] \in pre.final_states /\ pre.start_state = ret.args[1]
    /\ \E t \in Triples(pre) : t[3] = ret.args[1] /\ t[1] # ret.args[1]
    /\ Triples(aut) # {}

C8_WitnessPilha ==
    /\ kind = "pilha" /\ ret.op = "remove_state"
    /\ ret.args[1] \in pre.final_states /\ pre.start_state = ret.args[1]
    /\ \E t \in Pilha_Triples(pre) : t[3] = ret.args[1] /\ t[1] # ret.args[1]
    /\ Pilha_Triples(pda) # {}

(***************************************************************************)
(* Properties of simulate_history                                          *)
(***************************************************************************)
\* symbol is, character by character, what input_str holds from cursor on
IsPrefixAt(symbol, input_str, cursor) ==
    /\ cursor + Len(symbol) <= Len(input_str)
    /\ \A i \in 1..Len(symbol) :
            SubSeq(input_str, cursor + i, cursor + i) = SubSeq(symbol, i, i)

\* the non-epsilon symbols labelling a transition out of an active state
\* that are a literal prefix of the unconsumed input
Matching(A, active, input_str, cursor) ==
    {k[2] : k \in {k \in DOMAIN A.transitions :
                    /\ k[1] \in active
                    /\ k[2] # EPSILON
                    /\ IsPrefixAt(k[2], input_str, cursor)}}

Last(seq) == seq[Len(seq)]

\* C3: accepted is true iff the cursor of the last history entry is
\* len(input) and its active set holds a final state; for the empty input,
\* iff the epsilon-closure of the start state holds a final state
C3_AcceptedIffConsumedAndFinal ==
    ret.op = "simulate_history" =>
        LET w == ret.args[1]
            h == ret.val.history
        IN IF aut.start_state = None
           THEN h = <<>> /\ ~ret.val.accepted
           ELSE /\ h # <<>>
                /\ ret.val.accepted <=>
                        /\ Last(h)[2] = Len(w)
                        /\ Last(h)[1] \cap aut.final_states # {}
                /\ w = "" =>
                        (ret.val.accepted <=>
                            epsilon_closure(aut, {aut.start_state})
                                \cap aut.final_states # {})

\* C3 witness: an input of two symbols consumed and accepted through an
\* epsilon move
C3_Witness ==
    /\ ret.op = "simulate_history" /\ ret.val.accepted
    /\ Len(ret.val.history) = 3
    /\ <<"q0", EPSILON>> \in DOMAIN aut.transitions

\* C4: every step consumes the longest candidate symbol that is a prefix of
\* the unconsumed input, moves every active state on that one symbol, closes
\* the result under epsilon and advances the cursor by the symbol's length
C4_LongestMatchStep ==
    ret.op = "simulate_history" =>
        LET w == ret.args[1]
            h == ret.val.history
        IN /\ \A i \in 1..(Len(h) - 1) :
                LET M == Matching(aut, h[i][1], w, h[i][2]) IN
                \E symbol \in M :
                    /\ \A m \in M : Len(m) <= Len(symbol)
                    /\ h[i + 1][1] =
                            epsilon_closure(aut, move(aut, h[i][1], symbol))
                    /\ h[i + 1][2] = h[i][2] + Len(symbol)
           /\ (aut.start_state = "q0" /\ aut.final_states = {"q1"}
                /\ Triples(aut) = {<<"q0", "ab", "q1">>, <<"q0", "a", "q0">>}
                /\ w = "ab")
                => (ret.val.accepted /\ h = <<<<{"q0"}, 0>>, <<{"q1"}, 2>>>>)

\* C4 witness: "ab" and "a" both match and the step takes "ab"
C4_Witness ==
    /\ ret.op = "simulate_history" /\ Len(ret.val.history) >= 2
    /\ Matching(aut, ret.val.history[1][1], ret.args[1], 0) = {"a", "ab"}
    /\ ret.val.history[2][2] = 2

\* C5: when no candidate symbol is a prefix of the unconsumed input the
\* simulation stops there: the entry is the last one, its cursor is below
\* len(input), and the input is rejected whatever the active set holds; and
\* it stops below len(input) in no other case
C5_StuckRejects ==
    ret.op = "simulate_history" =>
        LET w == ret.args[1]
            h == ret.val.history
        IN /\ \A i \in 1..Len(h) :
                (h[i][2] < Len(w) /\ Matching(aut, h[i][1], w, h[i][2]) = {})
                    <=> (i = Len(h) /\ h[i][2] < Len(w))
           /\ (h # <<>> /\ Last(h)[2] < Len(w)) => ~ret.val.accepted
           /\ \A i \in 1..Len(h) : h[i][2] <= Len(w)
           /\ (aut.start_state = "q0"
                /\ Triples(aut) = {<<"q0", "a", "q1">>} /\ w = "b")
                => (~ret.val.accepted /\ h = <<<<{"q0"}, 0>>>>)

\* C5 witness: stuck after one step in an active set that holds a final state
C5_Witness ==
    /\ ret.op = "simulate_history" /\ ~ret.val.accepted
    /\ Len(ret.val.history) = 2
    /\ Last(ret.val.history)[2] < Len(ret.args[1])
    /\ Last(ret.val.history)[1] \cap aut.final_states # {}

(***************************************************************************)
(* Properties of is_dfa, to_dfa and minimize                               *)
(***************************************************************************)
\* the input strings over the alphabet of A
InputsOver(A) == {w \in Inputs : Chars(w) \subseteq single_char_alphabet(A)}

\* the language of A and of B agree on the inputs over the alphabet of A
SameLanguage(A, B) ==
    \A w \in InputsOver(A), order \in SymOrders :
        simulate(B, w, order) = simulate(A, w, order)

\* C1: for every automaton A for which is_dfa() is true and every input w
\* over the alphabet of A, A.minimize().simulate(w) = A.simulate(w)
C1_MinimizePreservesLanguage ==
    (ret.op = "minimize" /\ is_dfa(pre)) =>
        /\ ~ret.raised
        /\ SameLanguage(pre, ret.val)

\* C2: for every NFA with a start state whose transition symbols are single
\* characters or epsilon, and every input w over its alphabet,
\* to_dfa().simulate(w) = simulate(w)
C2_ToDfaPreservesLanguage ==
    (/\ ret.op = "to_dfa"
     /\ pre.start_state # None
     /\ \A t \in Triples(pre) : Len(t[2]) = 1) =>
        /\ ret.val # NoAutomato
        /\ is_dfa(ret.val)
        /\ SameLanguage(pre, ret.val)

\* C2 witness: an NFA with an epsilon transition out of the start state and
\* a key with two destinations, converted to a DFA of two subsets, accepts
\* "aa"
C2_Witness ==
    /\ ret.op = "to_dfa" /\ pre.start_state # None
    /\ \E t \in Triples(pre) : t[1] = pre.start_state /\ t[2] = EPSILON
    /\ \E k \in DOMAIN pre.transitions : Cardinality(pre.transitions[k]) = 2
    /\ Cardinality(ret.val.states) = 2
    /\ simulate(pre, "aa", <<"a", "b", "ab", "&">>)

\* C9: is_dfa() is False for an automaton with an epsilon transition, a key
\* with more than one destination or a multi-character symbol, and True for
\* every other automaton, with or without a start state, total or partial
C9_IsDfaIffDeterministicSingleChar ==
    ret.op = "is_dfa" =>
        (ret.val <=>
            ~ \/ \E t \in Triples(aut) : t[2] = EPSILON
              \/ \E t, u \in Triples(aut) :
                    t[1] = u[1] /\ t[2] = u[2] /\ t[3] # u[3]
              \/ \E t \in Triples(aut) : Len(t[2]) > 1)

\* C9 witness: False for the one reason of a multi-character symbol
C9_Witness ==
    /\ ret.op = "is_dfa" /\ ~ret.val
    /\ Triples(aut) = {<<"q0", "ab", "q1">>}

\* C9, the True case: a partial transition function and no start state
C9_WitnessTrue ==
    /\ ret.op = "is_dfa" /\ ret.val
    /\ aut.start_state = None
    /\ Triples(aut) # {} /\ Incomplete(aut) # {}

\* C10: minimize() on an automaton for which is_dfa() is false raises and
\* changes nothing: no trap state, no transition, no result automaton
C10_MinimizeNonDfaRaisesUnchanged ==
    (ret.op = "minimize" /\ ~is_dfa(pre)) =>
        /\ ret.raised
        /\ aut = pre
        /\ error_state_name \notin aut.states
        /\ ret.val = NoAutomato

\* C10 witness: the refused automaton has a (state, symbol) pair with no
\* transition, which completion would have sent to the trap state
C10_Witness ==
    /\ ret.op = "minimize" /\ ret.raised
    /\ Incomplete(pre) # {}
    /\ Triples(pre) # {}

\* C11: for every valid DFA A, A.minimize() has no more states than A, and
\* A.minimize().minimize() has as many states as A.minimize()
C11_MinimizeIdempotentStateCount ==
    (ret.op = "minimize" /\ ~ret.raised) =>
        /\ Cardinality(ret.val.states) <= Cardinality(pre.states)
        /\ ret.args = <<"result">> =>
                Cardinality(ret.val.states) = Cardinality(pre.states)

\* C12: after minimize() returns, the automaton it was called on has the
\* states, start state, final states, transitions and alphabet it had before
\* the call, also when the trap state was added and when it has no start state
C12_MinimizeLeavesOriginalUnchanged ==
    (ret.op = "minimize" /\ ~ret.raised) =>
        /\ aut.states = pre.states
        /\ aut.start_state = pre.start_state
        /\ aut.final_states = pre.final_states
        /\ aut.transitions = pre.transitions
        /\ aut.alphabet = pre.alphabet

(***************************************************************************)
(* Properties of epsilon_closure and of the conversions without start state *)
(***************************************************************************)
RECURSIVE EpsilonReach(_, _, _)
\* the states reachable from S by at most n epsilon transitions
EpsilonReach(A, S, n) ==
    IF n = 0 THEN S
    ELSE LET R == EpsilonReach(A, S, n - 1)
         IN R \cup {t[3] : t \in {u \in Triples(A) :
                                    u[1] \in R /\ u[2] = EPSILON}}

\* C13: epsilon_closure(S) is the set of states reachable from S by zero or
\* more epsilon transitions; S is a subset of it, and the closure of the
\* closure is the closure, epsilon cycles included
C13_EpsilonClosureIsReachability ==
    ret.op = "epsilon_closure" =>
        LET S == ret.args[1] IN
        /\ ret.val = EpsilonReach(aut, S, Cardinality(aut.states))
        /\ S \subseteq ret.val
        /\ epsilon_closure(aut, ret.val) = ret.val

\* C13 witness: an epsilon cycle through the three states, entered at q1
C13_Witness ==
    /\ ret.op = "epsilon_closure" /\ ret.args[1] = {"q1"}
    /\ Triples(aut) = {<<"q0", EPSILON, "q1">>, <<"q1", EPSILON, "q2">>,
                       <<"q2", EPSILON, "q0">>}
    /\ ret.val = {"q0", "q1", "q2"}

\* C14: with no start state set, to_regular_grammar() raises and to_dfa()
\* returns None instead of an automaton, and the automaton is as before
C14_NoStartStateConversionsFail ==
    (ret.op \in {"to_dfa", "to_regular_grammar"} /\ pre.start_state = None) =>
        /\ aut = pre
        /\ ret.op = "to_dfa" => (~ret.raised /\ ret.val = NoAutomato)
        /\ ret.op = "to_regular_grammar" => ret.raised

\* C14 witness: to_dfa() on an automaton with transitions, a final state and
\* no start state
C14_Witness ==
    /\ ret.op = "to_dfa" /\ pre.start_state = None
    /\ Triples(pre) # {} /\ pre.final_states # {}
    /\ ret.val = NoAutomato

\* C14, the grammar: raised on the same kind of automaton
C14_WitnessGrammar ==
    /\ ret.op = "to_regular_grammar" /\ pre.start_state = None
    /\ Triples(pre) # {} /\ pre.final_states # {}
    /\ ret.raised

\* C15: rename_state(old, new) where new names another state, or old is no
\* state, raises and leaves the object as it was, for Automato, AutomatoPilha
\* and MaquinaMoore
C15_RenameStateRefusedUnchanged ==
    (/\ ret.op = "rename_state"
     /\ \/ ret.args[1] \notin pre.states
        \/ (ret.args[2] \in pre.states /\ ret.args[2] # ret.args[1])) =>
        /\ ret.raised
        /\ CASE kind = "automato" -> aut = pre
             [] kind = "pilha" -> pda = pre
             [] OTHER -> moore = pre

\* C15 witness: an Automato's start state with a transition, renamed to the
\* name of the other state
C15_Witness ==
    /\ kind = "automato" /\ ret.op = "rename_state" /\ ret.raised
    /\ ret.args[1] = pre.start_state /\ ret.args[2] \in pre.states
    /\ \E t \in Triples(pre) : t[1] = ret.args[1]

\* C15 on an AutomatoPilha: the name is in use
C15_WitnessPilha ==
    /\ kind = "pilha" /\ ret.op = "rename_state" /\ ret.raised
    /\ ret.args[1] \in pre.states /\ ret.args[2] \in pre.states
    /\ pre.transitions # <<>>

\* C15 on a MaquinaMoore: the name is in use
C15_WitnessMoore ==
    /\ kind = "moore" /\ ret.op = "rename_state" /\ ret.raised
    /\ ret.args[1] \in pre.states /\ ret.args[2] \in pre.states
    /\ pre.transitions # <<>>

(***************************************************************************)
(* Properties of saving and loading                                        *)
(***************************************************************************)
\* C16: for every Automato A reachable by the mutation operations,
\* Automato.from_json(A.to_json()) has the states, start state, final states,
\* alphabet and transitions (the destination set of every key) of A
C16_AutomatoJsonRoundTrip ==
    (kind = "automato" /\ ret.op = "from_json" /\ ret.args = NoArgs) =>
        /\ ~ret.raised
        /\ ret.val.states = pre.states
        /\ ret.val.start_state = pre.start_state
        /\ ret.val.final_states = pre.final_states
        /\ ret.val.alphabet = pre.alphabet
        /\ DOMAIN ret.val.transitions = DOMAIN pre.transitions
        /\ \A k \in DOMAIN pre.transitions :
                ret.val.transitions[k] = pre.transitions[k]

\* C16 witness: loaded with no start state, a final state, a transition and
\* an alphabet symbol that labels no transition
C16_Witness ==
    /\ kind = "automato" /\ ret.op = "from_json" /\ ret.args = NoArgs
    /\ pre.start_state = None /\ pre.final_states # {}
    /\ Triples(pre) # {}
    /\ \E x \in pre.alphabet : \A t \in Triples(pre) : t[2] # x

\* C16, a key with two destinations and an epsilon transition
C16_WitnessTwoDestinations ==
    /\ kind = "automato" /\ ret.op = "from_json" /\ ret.args = NoArgs
    /\ \E k \in DOMAIN pre.transitions :
            k[2] = EPSILON /\ Cardinality(pre.transitions[k]) = 2

\* C17: for every AutomatoPilha P reachable by the mutation operations, one
\* with no start state included, AutomatoPilha.from_json(P.to_json()) has the
\* states, start state, start stack symbol, final states and transitions of P
C17_PilhaJsonRoundTrip ==
    (kind = "pilha" /\ ret.op = "from_json" /\ ret.args = NoArgs) =>
        /\ ~ret.raised
        /\ ret.val.states = pre.states
        /\ ret.val.start_state = pre.start_state
        /\ ret.val.start_stack_symbol = pre.start_stack_symbol
        /\ ret.val.final_states = pre.final_states
        /\ ret.val.transitions = pre.transitions

\* C18: for every MaquinaMoore M reachable by the mutation operations, one
\* whose start state was removed included, MaquinaMoore.from_json(M.to_json())
\* has the states, start state, output function and transitions of M
C18_MooreJsonRoundTrip ==
    (kind = "moore" /\ ret.op = "from_json" /\ ret.args = NoArgs) =>
        /\ ~ret.raised
        /\ ret.val.states = pre.states
        /\ ret.val.start_state = pre.start_state
        /\ ret.val.output_function = pre.output_function
        /\ ret.val.transitions = pre.transitions

\* a transition table without one key
WithoutKey(transitions, key) ==
    [k \in DOMAIN transitions \ {key} |-> transitions[k]]

\* C19: from_json of every kind is lenient: when one transition entry of the
\* document is malformed (a missing member, an unparsable key, an unknown
\* state) the load does not abort, that entry alone is left out, and every
\* other transition, every state and every flag is loaded
C19_FromJsonSkipsMalformedEntry ==
    (ret.op = "from_json" /\ ret.args # NoArgs) =>
        /\ ~ret.raised
        /\ CASE kind = "automato" ->
                /\ ret.val.states = pre.states
                /\ ret.val.start_state = pre.start_state
                /\ ret.val.final_states = pre.final_states
                /\ ret.val.transitions = WithoutKey(pre.transitions, ret.args[1])
             [] kind = "pilha" ->
                /\ ret.val.states = pre.states
                /\ pre.start_state # None =>
                        ret.val.start_state = pre.start_state
                /\ ret.val.final_states = pre.final_states
                /\ ret.val.transitions = WithoutKey(pre.transitions, ret.args[1])
             [] OTHER ->
                /\ ret.val.states = pre.states
                /\ pre.start_state # None =>
                        ret.val.start_state = pre.start_state
                /\ ret.val.output_function = pre.output_function
                /\ ret.val.transitions = WithoutKey(pre.transitions, ret.args[1])

(***************************************************************************)
(* Properties of AutomatoPilha.simulate_history                            *)
(***************************************************************************)
\* the symbol of a longest-match input move out of state: the longest label
\* of a transition leaving it that is a prefix of the remaining input
LongestMatches(P, state, remaining_input) ==
    LET matches == {x \in Pilha_possible_symbols(P, state) :
                        StartsWith(remaining_input, x)}
    IN {x \in matches : \A y \in matches : Len(y) <= Len(x)}

\* the configurations one epsilon move or one longest-match input move away
PilhaMoves(P, input_str, conf) ==
    Pilha_successors(P, conf, EPSILON, conf[2])
    \cup UNION {Pilha_successors(P, conf, x, conf[2] + Len(x)) :
                x \in LongestMatches(P, conf[1], Suffix(input_str, conf[2]))}

RECURSIVE PilhaReachFrom(_, _, _)
PilhaReachFrom(P, input_str, configs) ==
    LET more == configs
                \cup UNION {PilhaMoves(P, input_str, c) : c \in configs}
    IN IF more = configs THEN configs
       ELSE PilhaReachFrom(P, input_str, more)

\* every configuration reachable from (start state, cursor 0, [Z])
PilhaReachable(P, input_str) ==
    IF P.start_state = None THEN {}
    ELSE PilhaReachFrom(P, input_str,
            {<<P.start_state, 0, <<P.start_stack_symbol>>>>})

\* C20: simulate_history of a pushdown automaton accepts exactly when some
\* configuration reachable by epsilon moves and longest-match input moves
\* has consumed the whole input in a final state, whatever its stack
C20_PilhaAcceptsIffReachable ==
    (kind = "pilha" /\ ret.op = "simulate_history") =>
        (ret.val.accepted
            <=> \E c \in PilhaReachable(pda, ret.args[1]) :
                    c[2] = Len(ret.args[1]) /\ c[1] \in pda.final_states)

\* an input is accepted through an input move that pops the stack and an
\* epsilon move taken after it, the final configuration having an empty stack
C20_Witness ==
    /\ kind = "pilha" /\ ret.op = "simulate_history"
    /\ ret.val.accepted
    /\ ret.args[1] # ""
    /\ pda.final_states = {"q1"}
    /\ <<"q0", "&", "&">> \in DOMAIN pda.transitions
    /\ <<"q1", Len(ret.args[1]), <<>>>> \in PilhaReachable(pda, ret.args[1])

\* the longer of two matching labels is taken: "ab" is accepted by the
\* transition on "ab" although a transition on "a" leaves the same state
C20_WitnessLongestMatch ==
    /\ kind = "pilha" /\ ret.op = "simulate_history"
    /\ ret.args[1] = "a" \o "b"
    /\ {"a", "ab"} \subseteq Pilha_possible_symbols(pda, "q0")
    /\ pda.start_state = "q0"
    /\ ret.val.accepted

(***************************************************************************)
(* Properties of the pushdown automaton of the balanced parentheses        *)
(***************************************************************************)
RECURSIVE ParenDepth(_, _)
\* the number of "(" still open after str, read from depth open; -1 once a
\* ")" had no "(" to close
ParenDepth(str, open) ==
    IF open < 0 \/ str = "" THEN open
    ELSE ParenDepth(SubSeq(str, 2, Len(str)),
                    IF SubSeq(str, 1, 1) = "(" THEN open + 1 ELSE open - 1)

Balanced(str) == ParenDepth(str, 0) = 0

\* C21: the pushdown automaton of the balanced parentheses accepts exactly
\* the balanced strings over "(" and ")" up to the bounded length
C21_ParenPilhaAcceptsBalanced ==
    (kind = "pilha" /\ ret.op = "simulate") =>
        (ret.val <=> Balanced(ret.args[1]))

\* "(())" is accepted
C21_Witness ==
    /\ kind = "pilha" /\ ret.op = "simulate"
    /\ ret.args[1] = "(())"
    /\ ret.val

\* "(()" is rejected
C21_WitnessOpen ==
    /\ kind = "pilha" /\ ret.op = "simulate"
    /\ ret.args[1] = "(()"
    /\ ~ret.val

\* a string with an unmatched ")" and as many "(" as ")" is rejected
C21_WitnessUnmatched ==
    /\ kind = "pilha" /\ ret.op = "simulate"
    /\ ret.args[1] = "())("
    /\ ~ret.val

(***************************************************************************)
(* Properties of the moves of a pushdown automaton                         *)
(***************************************************************************)
\* a transition that pops pop_sym fires on stack: any stack for epsilon,
\* else a stack whose last element is pop_sym
Fires(stack, pop_sym) ==
    pop_sym = EPSILON \/ (stack # <<>> /\ stack[Len(stack)] = pop_sym)

\* the stack it leaves: the popped element removed, then the characters of
\* the push string appended from left to right
Fired(stack, pop_sym, push_syms) ==
    (IF pop_sym = EPSILON THEN stack ELSE SubSeq(stack, 1, Len(stack) - 1))
    \o (IF push_syms = EPSILON THEN <<>> ELSE TupleOf(push_syms))

\* the configurations the transitions on symbol that fire lead to
FiredMoves(P, conf, symbol, new_idx) ==
    UNION {{<<d[1], new_idx, Fired(conf[3], k[3], d[2])>> :
                d \in P.transitions[k]} :
            k \in {j \in DOMAIN P.transitions :
                    j[1] = conf[1] /\ j[2] = symbol /\ Fires(conf[3], j[3])}}

RECURSIVE FiredClosure(_, _)
\* the configurations reachable by epsilon transitions that fire
FiredClosure(P, configs) ==
    LET more == configs
                \cup UNION {FiredMoves(P, c, EPSILON, c[2]) : c \in configs}
    IN IF more = configs THEN configs ELSE FiredClosure(P, more)

\* C22: in every move, input-consuming or epsilon, a transition with a pop
\* symbol fires only on a stack whose last element is that symbol and removes
\* that element, a transition that pops epsilon fires on every stack and
\* removes nothing, and the push string is appended character by character
\* (nothing for epsilon)
C22_MovesPopAndPushByTheRule ==
    /\ (kind = "pilha" /\ ret.op = "_move_with_symbol") =>
            ret.val = FiredMoves(pda, ret.args[1], ret.args[2],
                                 ret.args[1][2] + Len(ret.args[2]))
    /\ (kind = "pilha" /\ ret.op = "_get_epsilon_closure") =>
            ret.val = FiredClosure(pda, {ret.args[1]})

(***************************************************************************)
(* Properties of MaquinaMoore.simulate_history                             *)
(***************************************************************************)
\* the longest symbols on a transition leaving state that are a prefix of
\* the input from cursor on (at most one)
MooreLongest(M, input_str, state, cursor) ==
    LET matches == {x \in Moore_possible_symbols(M, state) :
                        StartsWith(Suffix(input_str, cursor), x)}
    IN {x \in matches : \A y \in matches : Len(y) <= Len(x)}

RECURSIVE MoorePath(_, _, _)
\* the longest-match steps from the last entry of path on: entries are
\* (state, cursor) and the first is (start state, 0)
MoorePath(M, input_str, path) ==
    LET state == path[Len(path)][1]
        cursor == path[Len(path)][2]
        longest == MooreLongest(M, input_str, state, cursor)
    IN IF cursor >= Len(input_str) \/ longest = {} THEN path
       ELSE LET x == CHOOSE y \in longest : TRUE
            IN MoorePath(M, input_str,
                    Append(path, <<M.transitions[<<state, x>>],
                                   cursor + Len(x)>>))

RECURSIVE MooreOutputsOf(_, _, _)
\* output(s0) + ... + output(si) along path
MooreOutputsOf(M, path, i) ==
    IF i = 0 THEN ""
    ELSE MooreOutputsOf(M, path, i - 1) \o M.output_function[path[i][1]]

MooreConsumed(input_str, path) == path[Len(path)][2] = Len(input_str)

\* C23: when the input is consumed in k longest-match steps through the
\* states s0 .. sk, the output is output(s0) + ... + output(sk) and the
\* history has k+1 entries, the i-th being (si, output(s0) + ... +
\* output(si), cursor after i steps); the empty input gives the one entry of
\* the start state
C23_MooreOutputAlongPath ==
    (kind = "moore" /\ ret.op = "simulate_history"
        /\ moore.start_state # None) =>
        LET path == MoorePath(moore, ret.args[1], <<<<moore.start_state, 0>>>>)
        IN MooreConsumed(ret.args[1], path) =>
            /\ ret.val.output = MooreOutputsOf(moore, path, Len(path))
            /\ Len(ret.val.history) = Len(path)
            /\ \A i \in 1..Len(path) :
                    ret.val.history[i]
                        = <<path[i][1], MooreOutputsOf(moore, path, i),
                            path[i][2]>>

\* two steps, the first on the two-character symbol although "a" leaves
\* the start state too, through states of different outputs
C23_Witness ==
    /\ kind = "moore" /\ ret.op = "simulate_history"
    /\ ret.args[1] = "aba"
    /\ {"a", "ab"} \subseteq Moore_possible_symbols(moore, "q0")
    /\ ret.val.history = <<<<"q0", "0", 0>>, <<"q1", "01", 2>>,
                            <<"q1", "011", 3>>>>
    /\ ret.val.output = "011"

\* the empty input
C23_WitnessEmpty ==
    /\ kind = "moore" /\ ret.op = "simulate_history"
    /\ ret.args[1] = ""
    /\ ret.val.history = <<<<"q0", "1", 0>>>>
    /\ ret.val.output = "1"

\* C24: a machine with no transition on a prefix of the remaining input
\* returns the null output, never the output so far, without raising, with
\* the history of the steps taken before; the output is non-null only when
\* the whole input was consumed
C24_MooreStuckReturnsNull ==
    (kind = "moore" /\ ret.op = "simulate_history"
        /\ moore.start_state # None) =>
        LET path == MoorePath(moore, ret.args[1], <<<<moore.start_state, 0>>>>)
        IN /\ ~ret.raised
           /\ (ret.val.output # None) <=> MooreConsumed(ret.args[1], path)
           /\ ~MooreConsumed(ret.args[1], path) =>
                /\ Len(ret.val.history) = Len(path)
                /\ \A i \in 1..Len(path) :
                        ret.val.history[i]
                            = <<path[i][1], MooreOutputsOf(moore, path, i),
                                path[i][2]>>

\* stuck after one step: one entry for the start state, one for the step
C24_Witness ==
    /\ kind = "moore" /\ ret.op = "simulate_history"
    /\ ret.args[1] = "abb"
    /\ ret.val.output = None
    /\ ret.val.history = <<<<"q0", "0", 0>>, <<"q1", "01", 2>>>>

(***************************************************************************)
(* Properties of the alphabet of an Automato                               *)
(***************************************************************************)
\* C25: after any sequence of add_state, add_transition, remove_transition,
\* remove_state and rename_state the alphabet of an Automato is exactly the
\* set of the non-epsilon symbols that label a transition
C25_AlphabetIsSymbolsInUse ==
    kind = "automato" =>
        aut.alphabet = {t[2] : t \in Triples(aut)} \ {EPSILON}

(***************************************************************************)
(* Properties of the iteration order of sets in simulate_history           *)
(***************************************************************************)
\* every order in which the set S may iterate
AllOrders(S) ==
    {f \in [1..Cardinality(S) -> S] :
        \A i, j \in 1..Cardinality(S) : f[i] = f[j] => i = j}

\* C26: the verdict of simulate_history is the same for every iteration
\* order of the sets of symbols (Automato) and of the sets of
\* configurations and symbols (AutomatoPilha)
C26_AcceptedIgnoresIterationOrder ==
    /\ (kind = "automato" /\ ret.op = "simulate_history") =>
            \A order \in AllOrders(SimSymbols) :
                simulate_history(aut, ret.args[1], order).accepted
                    = ret.val.accepted
    /\ (kind = "pilha" /\ ret.op = "simulate_history") =>
            \A reversed \in BOOLEAN :
                Pilha_simulate_history(pda, ret.args[1], reversed).accepted
                    = ret.val.accepted

\* a pushdown automaton whose history depends on the order (the
\* representative entries differ) and whose verdict does not
C26_Witness ==
    /\ kind = "pilha" /\ ret.op = "simulate_history"
    /\ ret.val.accepted
    /\ \E reversed \in BOOLEAN :
            Pilha_simulate_history(pda, ret.args[1], reversed).history
                # ret.val.history

\* an automaton with symbols of one and of two characters on the
\* transitions of its start state, accepting "ab" on the longer one
C26_WitnessAutomato ==
    /\ kind = "automato" /\ ret.op = "simulate_history"
    /\ ret.args[1] = "a" \o "b"
    /\ {<<"q0", "a">>, <<"q0", "ab">>} \subseteq DOMAIN aut.transitions
    /\ aut.final_states = {"q1"}
    /\ aut.transitions[<<"q0", "a">>] = {"q0"}
    /\ ret.val.accepted

(***************************************************************************)
(* Properties of the automaton returned by minimize                        *)
(***************************************************************************)
\* the block of states of A that the state name of the minimized automaton
\* stands for
BlockOf(A, name) ==
    CHOOSE group \in SUBSET A.states : group # {} /\ GroupName(group) = name

\* C27: in the automaton returned by minimize() the start state is the block
\* that holds the original start state, no block when the original has
\* none, and a block is final iff it holds an original final state
C27_MinimizeStartAndFinalBlocks ==
    (kind = "automato" /\ ret.op = "minimize" /\ ~ret.raised) =>
        /\ IF pre.start_state = None THEN ret.val.start_state = None
           ELSE /\ ret.val.start_state \in ret.val.states
                /\ pre.start_state \in BlockOf(pre, ret.val.start_state)
        /\ \A name \in ret.val.states :
                name \in ret.val.final_states
                    <=> BlockOf(pre, name) \cap pre.final_states # {}

(***************************************************************************)
(* Properties of the automaton returned by to_dfa                          *)
(***************************************************************************)
\* U = epsilon_closure(move(T, c))
SubsetAfter(A, T, c) == epsilon_closure(A, move(A, T, c))

\* the characters of the symbols of the alphabet
SubsetChars(A) == single_char_alphabet(A) \ {EPSILON}

RECURSIVE SubsetsFrom(_, _)
SubsetsFrom(A, found) ==
    LET more == found
                \cup ({SubsetAfter(A, T, c) : T \in found, c \in SubsetChars(A)}
                        \ {{}})
    IN IF more = found THEN found ELSE SubsetsFrom(A, more)

\* the subsets that the worklist of to_dfa holds at some time
WorklistSubsets(A) == SubsetsFrom(A, {epsilon_closure(A, {A.start_state})})

\* name gives every subset of the worklist its own state of the result, "q0"
\* to the start subset, which is the start state, and a final state exactly
\* to the subsets holding an original final state
NamesSubsets(A, dfa, name) ==
    /\ \A T, U \in DOMAIN name : name[T] = name[U] => T = U
    /\ {name[T] : T \in DOMAIN name} = dfa.states
    /\ name[epsilon_closure(A, {A.start_state})] = "q0"
    /\ dfa.start_state = "q0"
    /\ \A T \in DOMAIN name :
            name[T] \in dfa.final_states <=> T \cap A.final_states # {}

C28_WitnessMultiCharacter ==
    /\ kind = "automato" /\ ret.op = "to_dfa" /\ pre.start_state # None
    /\ "ab" \in pre.alphabet
    /\ "a" \notin pre.alphabet
    /\ ret.val.transitions = <<>>

(***************************************************************************)
(* Properties of to_regular_grammar                                        *)
(***************************************************************************)
RECURSIVE SplitOn(_, _)
\* the pieces of str between the occurrences of sep
SplitOn(str, sep) ==
    LET at == {i \in 1..(Len(str) - Len(sep) + 1) :
                SubSeq(str, i, i + Len(sep) - 1) = sep}
    IN IF at = {} THEN <<str>>
       ELSE LET i == CHOOSE k \in at : \A m \in at : k <= m
            IN <<SubSeq(str, 1, i - 1)>>
               \o SplitOn(SubSeq(str, i + Len(sep), Len(str)), sep)

\* the productions (left-hand side, alternative) written in the text
ProductionsOf(text) ==
    LET lines == SplitOn(text, "\n")
        sides(i) == SplitOn(lines[i], " -> ")
    IN UNION {{<<sides(i)[1], alt>> :
                    alt \in SetOfList(SplitOn(sides(i)[2], " | "))} :
                i \in {k \in 1..Len(lines) : Len(sides(k)) = 2}}

\* the items (p, sym, dst) the grammar is due: a non-epsilon transition
\* (r, sym) -> dst for r in the epsilon closure of p
GrammarItems(A) ==
    {<<p, t[2], t[3]>> :
        p \in A.states,
        t \in {u \in Triples(A) : u[2] # EPSILON}}
    \cap {x \in A.states \X A.alphabet \X A.states :
            \E r \in epsilon_closure(A, {x[1]}) :
                <<r, x[2], x[3]>> \in Triples(A)}

\* the states whose epsilon closure holds a final state
GrammarNullable(A) ==
    {p \in A.states : epsilon_closure(A, {p}) \cap A.final_states # {}}

\* C29: in extended mode the productions of to_regular_grammar are exactly
\* p -> epsilon for the states p whose epsilon closure R holds a final
\* state, p -> sym dst for the non-epsilon transitions (r, sym) -> dst with
\* r in R, and p -> sym for those with a final dst
C29_GrammarProductionsExtended ==
    (kind = "automato" /\ ret.op = "to_regular_grammar" /\ ~ret.raised
        /\ ret.args = <<FALSE>>) =>
        ProductionsOf(ret.val)
            = {<<p, "ε">> : p \in GrammarNullable(pre)}
              \cup {<<x[1], x[2] \o " " \o x[3]>> : x \in GrammarItems(pre)}
              \cup {<<x[1], x[2]>> :
                        x \in {y \in GrammarItems(pre) :
                                y[3] \in pre.final_states}}

\* a state without transitions of its own inherits, through an epsilon
\* transition, the epsilon production and a terminal-only production
C29_Witness ==
    /\ kind = "automato" /\ ret.op = "to_regular_grammar" /\ ~ret.raised
    /\ ret.args = <<FALSE>>
    /\ pre.final_states = {"__G0"}
    /\ DOMAIN pre.transitions = {<<"q0", "&">>, <<"__G0", "ab">>}
    /\ {<<"q0", "ε">>, <<"q0", "ab">>, <<"q0", "ab __G0">>}
            \subseteq ProductionsOf(ret.val)

\* the single characters of the symbols on the transitions
GrammarTerminals(A) ==
    UNION {SetOfList(TupleOf(t[2])) : t \in {u \in Triples(A) : u[2] # EPSILON}}

\* the nonterminals of a strict grammar that are not states
FreshNonterminals(A, prods) == {x[1] : x \in prods} \ A.states

\* alt is one terminal of A, optionally followed by one of the nonterminals
OneTerminalForm(A, prods, alt) ==
    /\ alt # "ε"
    /\ Len(alt) >= 1
    /\ <<SubSeq(alt, 1, 1)>> \in {<<c>> : c \in GrammarTerminals(A)}
    /\ \/ Len(alt) = 1
       \/ /\ Len(alt) >= 3
          /\ SubSeq(alt, 2, 2) = " "
          /\ SubSeq(alt, 3, Len(alt)) \in A.states \cup FreshNonterminals(A, prods)

RECURSIVE ChainDerives(_, _, _, _, _)
\* prods spell sym from nonterminal p, one character per production, through
\* fresh nonterminals, and end in dst (or in no nonterminal when dst is None)
ChainDerives(A, prods, p, sym, dst) ==
    IF Len(sym) = 1
    THEN <<p, IF dst = None THEN sym ELSE sym \o " " \o dst>> \in prods
    ELSE \E n \in FreshNonterminals(A, prods) :
            /\ <<p, SubSeq(sym, 1, 1) \o " " \o n>> \in prods
            /\ ChainDerives(A, prods, n, SubSeq(sym, 2, Len(sym)), dst)

\* the chains of a strict grammar: every production due in extended mode is
\* spelled by a chain, there are Len(sym) - 1 fresh nonterminals for each, none
\* named as a state, and a fresh nonterminal has one production and one use
StrictChains(A, prods) ==
    LET fresh == FreshNonterminals(A, prods)
        due == {<<x[1], x[2], x[3]>> : x \in GrammarItems(A)}
               \cup {<<x[1], x[2], None>> :
                        x \in {y \in GrammarItems(A) : y[3] \in A.final_states}}
        links == UNION {{<<x, i>> : i \in 1..(Len(x[2]) - 1)} : x \in due}
    IN /\ \A x \in due : ChainDerives(A, prods, x[1], x[2], x[3])
       /\ Cardinality(fresh) = Cardinality(links)
       /\ \A n \in fresh :
            /\ Cardinality({x \in prods : x[1] = n}) = 1
            /\ Cardinality({x \in prods :
                    /\ Len(x[2]) >= 3
                    /\ SubSeq(x[2], 3, Len(x[2])) = n}) = 1

\* C30: in strict mode every production of to_regular_grammar is p -> epsilon
\* (for the states whose epsilon closure holds a final state, and for no other
\* nonterminal) or has exactly one single-character terminal, optionally
\* followed by one nonterminal; each symbol of length n is spelled by a chain
\* through n - 1 fresh nonterminals whose names collide with no state name and
\* with no other chain
C30_GrammarStrictForm ==
    (kind = "automato" /\ ret.op = "to_regular_grammar" /\ ~ret.raised
        /\ ret.args = <<TRUE>>) =>
        LET prods == ProductionsOf(ret.val)
        IN /\ \A x \in prods :
                \/ x[2] = "ε" /\ x[1] \in GrammarNullable(pre)
                \/ OneTerminalForm(pre, prods, x[2])
           /\ \A p \in GrammarNullable(pre) : <<p, "ε">> \in prods
           /\ StrictChains(pre, prods)

\* C30 as stated: in strict mode every production has exactly one
\* single-character terminal, optionally followed by one nonterminal, and the
\* chains of the multi-character symbols use fresh nonterminals that collide
\* with no state name and with no other chain
C30_GrammarStrictOneTerminalEach ==
    (kind = "automato" /\ ret.op = "to_regular_grammar" /\ ~ret.raised
        /\ ret.args = <<TRUE>>) =>
        LET prods == ProductionsOf(ret.val)
        IN /\ \A x \in prods : OneTerminalForm(pre, prods, x[2])
           /\ StrictChains(pre, prods)

\* the symbol "abc" leaves the state "__G0" for the final state "q0": two
\* chains of two fresh nonterminals each, none of them named "__G0"
C30_Witness ==
    /\ kind = "automato" /\ ret.op = "to_regular_grammar" /\ ~ret.raised
    /\ ret.args = <<TRUE>>
    /\ pre.states = {"q0", "__G0"}
    /\ pre.final_states = {"q0"}
    /\ DOMAIN pre.transitions = {<<"__G0", "abc">>}
    /\ FreshNonterminals(pre, ProductionsOf(ret.val))
            = {"__G1", "__G2", "__G3", "__G4"}
    /\ <<"q0", "ε">> \in ProductionsOf(ret.val)

(***************************************************************************)
(* Runs of AutomatoPilha.simulate_history, one loop iteration per step     *)
(***************************************************************************)
MaxRunTrans == 3
MaxEpsilonStack == 6
MaxRunStack == 10

RunInputs == {"", "a"}

RunArcs ==
    PilhaStates \X {"&", "a"} \X {"&", "A"} \X PilhaStates \X {"&", "A", "A&"}

RECURSIVE FiredClosureUpTo(_, _, _)
\* the configurations reachable by epsilon transitions that fire, through
\* stacks of at most n elements
FiredClosureUpTo(P, configs, n) ==
    LET more == configs
                \cup {c \in UNION {FiredMoves(P, d, EPSILON, d[2]) :
                                    d \in configs} : Len(c[3]) <= n}
    IN IF more = configs THEN configs ELSE FiredClosureUpTo(P, more, n)

\* the epsilon transitions of P cannot grow a stack without bound: from no
\* state and stack of at most two elements do the epsilon transitions that
\* fire reach a stack of MaxEpsilonStack elements
PilhaEpsilonBounded(P) ==
    \A q \in P.states, stack \in StacksUpTo(StackChars(P), 2) :
        \A c \in FiredClosureUpTo(P, {<<q, 0, stack>>}, MaxEpsilonStack) :
            Len(c[3]) < MaxEpsilonStack

\* simulate_history is called on a drawn automaton and input
InitRun ==
    /\ kind = "pilha"
    /\ gui = NoGui
    /\ aut = Automato
    /\ \E T \in SetsUpTo(RunArcs, MaxRunTrans) :
        /\ pda = PilhaOf(PilhaStates, "q0", {"q1"}, T)
        /\ PilhaEpsilonBounded(pda)
    /\ moore = MaquinaMoore
    /\ pre = pda
    /\ \E input_str \in RunInputs, reversed \in BOOLEAN :
        ret = Call("simulate_history_steps", <<input_str>>, FALSE,
                   Pilha_run_start(pda, input_str, reversed))

Running(pc) == ret.op = "simulate_history_steps" /\ ret.val.pc = pc

\* one iteration of the loop of _get_epsilon_closure; stacks are followed
\* up to MaxRunStack elements
PilhaRunClosure ==
    /\ Running("closure")
    /\ ret.val.call.queue # <<>>
    /\ Len(Head(ret.val.call.queue)[3]) <= MaxRunStack
    /\ ret' = [ret EXCEPT !.val.call =
                    Pilha_closure_step(pda, @, ret.val.reversed)]
    /\ UNCHANGED <<gui, kind, aut, pda, moore, pre>>

\* _get_epsilon_closure returns
PilhaRunReturn ==
    /\ Running("closure")
    /\ ret.val.call.queue = <<>>
    /\ ret' = [ret EXCEPT !.val = Pilha_run_return(pda, @)]
    /\ UNCHANGED <<gui, kind, aut, pda, moore, pre>>

\* one iteration of the loop of simulate_history, up to its closure call
PilhaRunMain ==
    /\ Running("main")
    /\ ret.val.queue # <<>>
    /\ ret' = [ret EXCEPT !.val = Pilha_run_main(pda, @)]
    /\ UNCHANGED <<gui, kind, aut, pda, moore, pre>>

\* the loop of simulate_history ends and simulate_history returns
PilhaRunFinish ==
    /\ Running("main")
    /\ ret.val.queue = <<>>
    /\ ret' = [ret EXCEPT !.val = Pilha_run_finish(pda, @)]
    /\ UNCHANGED <<gui, kind, aut, pda, moore, pre>>

NextRun ==
    \/ PilhaRunClosure
    \/ PilhaRunReturn
    \/ PilhaRunMain
    \/ PilhaRunFinish

\* a call that is made goes on as long as it has a step to take
SpecRun == InitRun /\ [][NextRun]_vars /\ WF_vars(NextRun)

\* the configurations a closure call was made on
RunCallConfigs(r) ==
    CASE r.after = "start" -> {r.config_tuple}
      [] r.after = "epsilon" -> {r.config_tuple}
      [] r.after = "move" ->
            FiredMoves(pda, r.config_tuple, r.symbol,
                       r.config_tuple[2] + Len(r.symbol))

\* C31: on a pushdown automaton whose epsilon transitions cannot grow the
\* stack without bound, every closure that simulate_history computes is the
\* set of configurations reachable by epsilon moves, and simulate_history
\* returns
C31_PilhaSimulateHistoryTerminates ==
    /\ []((Running("closure") /\ ret.val.call.queue = <<>>) =>
            ret.val.call.closure
                = FiredClosureUpTo(pda, RunCallConfigs(ret.val), MaxRunStack))
    /\ <>Running("done")

(***************************************************************************)
(* Properties of AutomatoPilha.add_state                                   *)
(***************************************************************************)
\* C32: AutomatoPilha.add_state(s) without is_start makes s the start state
\* when s is the first state of an automaton that has no start state, and
\* leaves the start state as it is when the automaton has one
C32_PilhaFirstStateBecomesStart ==
    (kind = "pilha" /\ ret.op = "add_state" /\ ~ret.args[2]) =>
        /\ (pre.states = {} /\ pre.start_state = None) =>
                pda.start_state = ret.args[1]
        /\ pre.start_state # None => pda.start_state = pre.start_state

(***************************************************************************)
(* rename_state of Automato, MaquinaMoore and both AutomatoPilha classes   *)
(* (src/core/pilha.py and src/pilha.py) on a given structure               *)
(***************************************************************************)
\* rename_state of src/pilha.py: the sets of states and the start state are
\* renamed, the transitions are left as they are
PilhaLegacy_rename_state(P, old_name, new_name) ==
    IF Pilha_rename_state_raises(P, old_name, new_name) THEN P
    ELSE [P EXCEPT
            !.states = (@ \ {old_name}) \cup {new_name},
            !.start_state = IF @ = old_name THEN new_name ELSE @,
            !.final_states = IF old_name \in @
                             THEN (@ \ {old_name}) \cup {new_name} ELSE @]

\* the AutomatoPilha of src/pilha.py that add_state and add_transition build:
\* its add_transition does not add the start stack symbol to stack_alphabet
PilhaLegacyOf(states, start, finals, T) ==
    [PilhaOf(states, start, finals, T) EXCEPT
        !.stack_alphabet =
            ({t[3] : t \in T} \cup UNION {Chars(t[5]) : t \in T})
                \ {EPSILON}]

\* the new names: one in use, one free
RenameNames == {"q1", "q2"}

InitLegacy ==
    /\ kind = "pilha_legacy"
    /\ gui = NoGui
    /\ aut = Automato
    /\ \E start \in {None, "q0"}, finals \in SUBSET PilhaStates,
          T \in SetsUpTo(PilhaArcs, MaxPilhaTrans) :
            pda = PilhaLegacyOf(PilhaStates, start, finals, T)
    /\ moore = MaquinaMoore
    /\ pre = pda
    /\ ret = Call("init", NoArgs, FALSE, FALSE)

InitRename == InitSim \/ InitPilha \/ InitMoore \/ InitLegacy

RenameStateOnce ==
    /\ kind = "automato"
    /\ ret.op = "init"
    /\ \E old_name \in SimStates, new_name \in RenameNames :
        /\ aut' = rename_state(aut, old_name, new_name)
        /\ ret' = Call("rename_state", <<old_name, new_name>>,
                       rename_state_raises(aut, old_name, new_name), FALSE)
    /\ pre' = aut
    /\ UNCHANGED <<gui, kind, pda, moore>>

PilhaRenameStateOnce ==
    /\ kind = "pilha"
    /\ ret.op = "init"
    /\ \E old_name \in PilhaStates, new_name \in RenameNames :
        /\ pda' = Pilha_rename_state(pda, old_name, new_name)
        /\ ret' = Call("rename_state", <<old_name, new_name>>,
                       Pilha_rename_state_raises(pda, old_name, new_name),
                       FALSE)
    /\ pre' = pda
    /\ UNCHANGED <<gui, kind, aut, moore>>

MooreRenameStateOnce ==
    /\ kind = "moore"
    /\ ret.op = "init"
    /\ \E old_name \in MooreSimStates, new_name \in RenameNames :
        /\ moore' = Moore_rename_state(moore, old_name, new_name)
        /\ ret' = Call("rename_state", <<old_name, new_name>>,
                       Moore_rename_state_raises(moore, old_name, new_name),
                       FALSE)
    /\ pre' = moore
    /\ UNCHANGED <<gui, kind, aut, pda>>

LegacyRenameStateOnce ==
    /\ kind = "pilha_legacy"
    /\ ret.op = "init"
    /\ \E old_name \in PilhaStates, new_name \in RenameNames :
        /\ pda' = PilhaLegacy_rename_state(pda, old_name, new_name)
        /\ ret' = Call("rename_state", <<old_name, new_name>>,
                       Pilha_rename_state_raises(pda, old_name, new_name),
                       FALSE)
    /\ pre' = pda
    /\ UNCHANGED <<gui, kind, aut, moore>>

NextRename ==
    \/ RenameStateOnce
    \/ PilhaRenameStateOnce
    \/ MooreRenameStateOnce
    \/ LegacyRenameStateOnce

SpecRename == InitRename /\ [][NextRename]_vars

\* s with old_name replaced by new_name
Renamed(s, old_name, new_name) == IF s = old_name THEN new_name ELSE s

\* the transitions (src, label, dst) with both ends renamed
RenamedTriples(T, old_name, new_name) ==
    {<<Renamed(t[1], old_name, new_name), t[2],
       Renamed(t[3], old_name, new_name)>> : t \in T}

\* the sets of states and the start state are renamed
RenamedStates(before, after, old_name, new_name) ==
    /\ after.states = (before.states \ {old_name}) \cup {new_name}
    /\ after.start_state = Renamed(before.start_state, old_name, new_name)

RenamedFinals(before, after, old_name, new_name) ==
    after.final_states
        = {Renamed(s, old_name, new_name) : s \in before.final_states}

\* C33: a successful rename_state(old, new) to another name, in Automato,
\* MaquinaMoore and both AutomatoPilha classes, leaves old in no set of
\* states, flag or transition, turns every transition that mentioned old
\* into one that mentions new, leaves the other transitions as they were,
\* and leaves the result of the simulation of every input as it was
C33_RenameStateRenamesThroughout ==
    (ret.op = "rename_state" /\ ~ret.raised /\ ret.args[1] # ret.args[2]) =>
        LET old_name == ret.args[1]
            new_name == ret.args[2]
        IN CASE kind = "automato" ->
                /\ RenamedStates(pre, aut, old_name, new_name)
                /\ RenamedFinals(pre, aut, old_name, new_name)
                /\ Triples(aut)
                        = RenamedTriples(Triples(pre), old_name, new_name)
                /\ \A w \in Inputs, order \in SymOrders :
                        simulate(aut, w, order) = simulate(pre, w, order)
             [] kind = "moore" ->
                /\ RenamedStates(pre, moore, old_name, new_name)
                /\ DOMAIN moore.output_function
                        = {Renamed(s, old_name, new_name) :
                                s \in DOMAIN pre.output_function}
                /\ Moore_Triples(moore)
                        = RenamedTriples(Moore_Triples(pre), old_name, new_name)
                /\ \A w \in Inputs, reversed \in BOOLEAN :
                        Moore_simulate_history(moore, w, reversed).output
                            = Moore_simulate_history(pre, w, reversed).output
             [] kind = "pilha" ->
                /\ RenamedStates(pre, pda, old_name, new_name)
                /\ RenamedFinals(pre, pda, old_name, new_name)
                /\ Pilha_Triples(pda)
                        = RenamedTriples(Pilha_Triples(pre), old_name, new_name)
                /\ \A w \in Words(MaxPilhaLen), reversed \in BOOLEAN :
                        Pilha_simulate(pda, w, reversed)
                            = Pilha_simulate(pre, w, reversed)
             [] kind = "pilha_legacy" ->
                /\ RenamedStates(pre, pda, old_name, new_name)
                /\ RenamedFinals(pre, pda, old_name, new_name)
                /\ Pilha_Triples(pda)
                        = RenamedTriples(Pilha_Triples(pre), old_name, new_name)

(***************************************************************************)
(* Properties of the states of a minimized automaton                       *)
(***************************************************************************)
RECURSIVE AcceptsFrom(_, _, _)
\* w leads from a state of S to a final state of A, a character at a time
AcceptsFrom(A, S, w) ==
    IF w = "" THEN S \cap A.final_states # {}
    ELSE AcceptsFrom(A,
            UNION {Get(A.transitions, <<q, SubSeq(w, 1, 1)>>) : q \in S},
            SubSeq(w, 2, Len(w)))

\* C34: no two distinct states of the automaton returned by minimize()
\* accept the same language: for every pair there is an input accepted from
\* one and rejected from the other
C34_MinimizedStatesDistinguishable ==
    (ret.op = "minimize" /\ ~ret.raised) =>
        \A q, r \in ret.val.states :
            q # r =>
                \E w \in Inputs :
                    AcceptsFrom(ret.val, {q}, w) # AcceptsFrom(ret.val, {r}, w)

(***************************************************************************)
(* Subset construction of an automaton with symbols of any kind            *)
(***************************************************************************)
\* a single character, two characters, a symbol that holds the character of
\* epsilon, and epsilon
AnySymbols == {"a", "ab", "a&", "&"}

InitAnySymbols ==
    /\ kind = "automato"
    /\ gui = NoGui
    /\ \E start \in {None, "q0"}, finals \in SUBSET SimStates,
          T \in SetsUpTo(SimStates \X AnySymbols \X SimStates, MaxSimTrans) :
            aut = AutomatoOf(SimStates, start, finals, T)
    /\ pda = AutomatoPilha
    /\ moore = MaquinaMoore
    /\ pre = aut
    /\ ret = Call("init", NoArgs, FALSE, FALSE)

NextAnySymbols == ToDfaOnce

SpecAnySymbols == InitAnySymbols /\ [][NextAnySymbols]_vars

\* C35: for every automaton with a start state, whatever its symbols, the
\* automaton to_dfa() returns satisfies is_dfa(): every transition key has
\* exactly one destination and a single-character symbol that is not
\* epsilon, and names only states of the returned automaton; the automaton
\* to_dfa() was called on is as it was
C35_ToDfaReturnsDfa ==
    (ret.op = "to_dfa" /\ pre.start_state # None) =>
        /\ ret.val # NoAutomato
        /\ is_dfa(ret.val)
        /\ \A k \in DOMAIN ret.val.transitions :
                /\ Cardinality(ret.val.transitions[k]) = 1
                /\ Len(k[2]) = 1
                /\ k[2] # EPSILON
                /\ k[1] \in ret.val.states
                /\ ret.val.transitions[k] \subseteq ret.val.states
        /\ aut = pre

\* the automaton has a two-character symbol and a symbol that holds the
\* character of epsilon, and the result has two states and a transition
C35_Witness ==
    /\ ret.op = "to_dfa" /\ pre.start_state # None
    /\ {"ab", "a&"} \subseteq pre.alphabet
    /\ Cardinality(ret.val.states) = 2
    /\ <<"q0", "a">> \in DOMAIN ret.val.transitions

(***************************************************************************)
(* Simulation of an automaton that has the empty string as a symbol        *)
(***************************************************************************)
\* add_transition takes any string as symbol, the empty string included
EmptySymbols == {"a", "ab", "", "&"}
EmptySymOrders == {<<"a", "ab", "", "&">>, <<"&", "", "ab", "a">>}
EmptyInputs == {"", "a", "ab", "aa"}

\* the transitions on which no run repeats a step without consuming input:
\* the empty string labels q0 -> q1 only, and no epsilon leads back to q0
EmptyArcs ==
    {t \in SimStates \X EmptySymbols \X SimStates :
        /\ t[2] = "" => (t[1] = "q0" /\ t[3] = "q1")
        /\ t[2] = EPSILON => ~(t[1] = "q1" /\ t[3] = "q0")}

InitEmptySymbol ==
    /\ kind = "automato"
    /\ gui = NoGui
    /\ \E start \in {None, "q0"}, finals \in SUBSET SimStates,
          T \in SetsUpTo(EmptyArcs, MaxSimTrans) :
            aut = AutomatoOf(SimStates, start, finals, T)
    /\ pda = AutomatoPilha
    /\ moore = MaquinaMoore
    /\ pre = aut
    /\ ret = Call("init", NoArgs, FALSE, FALSE)

SimulateHistoryEmptySymbol ==
    /\ kind = "automato"
    /\ ret.op = "init"
    /\ \E input_str \in EmptyInputs, order \in EmptySymOrders :
        ret' = Call("simulate_history", <<input_str>>, FALSE,
                    simulate_history(aut, input_str, order))
    /\ pre' = aut
    /\ UNCHANGED <<gui, kind, aut, pda, moore>>

NextEmptySymbol == SimulateHistoryEmptySymbol

SpecEmptySymbol == InitEmptySymbol /\ [][NextEmptySymbol]_vars

\* C36: the history simulate_history returns starts with
\* (epsilon_closure({start}), 0); the cursor of every later entry is
\* strictly greater than the cursor of the entry before it and at most
\* len(input), so that the loop makes at most len(input) steps
C36_SimulateHistoryCursorIncreases ==
    (ret.op = "simulate_history" /\ pre.start_state # None) =>
        LET history == ret.val.history
            input_str == ret.args[1]
        IN /\ Len(history) >= 1
           /\ history[1] = <<epsilon_closure(pre, {pre.start_state}), 0>>
           /\ \A i \in 2..Len(history) :
                /\ history[i][2] > history[i - 1][2]
                /\ history[i][2] <= Len(input_str)
           /\ Len(history) <= Len(input_str) + 1

(***************************************************************************)
(* Simulation of a pushdown automaton whose symbols differ in length       *)
(***************************************************************************)
\* the most transitions of such an automaton
MaxLengthTrans == 3

\* transitions that read a, ab or nothing, pop nothing or Z, push nothing
LengthArcs == PilhaStates \X {"a", "ab", "&"} \X {"&", "Z"} \X PilhaStates \X {"&"}

InitLengths ==
    /\ kind = "pilha"
    /\ gui = NoGui
    /\ aut = Automato
    /\ \E start \in {None, "q0"}, finals \in SUBSET PilhaStates,
          T \in SetsUpTo(LengthArcs, MaxLengthTrans) :
            pda = PilhaOf(PilhaStates, start, finals, T)
    /\ moore = MaquinaMoore
    /\ pre = pda
    /\ ret = Call("init", NoArgs, FALSE, FALSE)

NextLengths == PilhaSimulateHistory

SpecLengths == InitLengths /\ [][NextLengths]_vars

\* the entries of a history that are configurations: all but the marker
Recorded(history) == SelectSeq(history, LAMBDA e : e[1] # "-")

\* C37: the history AutomatoPilha.simulate_history returns lists one
\* configuration per cursor position, in strictly increasing order of the
\* cursor from 0 on, and ends with the marker "-" exactly when none of
\* these configurations is at the end of the input
C37_PilhaHistoryInCursorOrder ==
    (ret.op = "simulate_history" /\ kind = "pilha"
        /\ pre.start_state # None) =>
        LET history == ret.val.history
            recorded == Recorded(history)
            input_str == ret.args[1]
        IN /\ Len(recorded) >= 1
           /\ recorded[1][2] = 0
           /\ \A i \in 2..Len(recorded) : recorded[i][2] > recorded[i - 1][2]
           /\ \A i \in 1..Len(history) :
                history[i][1] = "-" => i = Len(history)
           /\ (history[Len(history)][1] = "-") <=>
                ~\E i \in 1..Len(recorded) : recorded[i][2] = Len(input_str)

(***************************************************************************)
(* The editor of pushdown automata (src/gui/gui_pilha.py): edits on the    *)
(* canvas, undo and redo.  The mode the toolbar has set and the state      *)
(* under the click are inputs of the handlers.                             *)
(***************************************************************************)
\* the most states an edited automaton has, and the most snapshots the
\* two stacks hold together
MaxEditorStates == 2
MaxSnapshots == 4
\* the length the undo stack is cut back to
UndoLimit == 50

\* the labels typed into the transition dialog: input, pop, push
EditorLabels == {<<"a", "&", "A">>}
\* where the canvas is clicked
ClickPoints == {<<0, 0>>}

\* json.dumps of the automaton's to_json() and the positions
snapshot_of_pda(automato, positions) ==
    [automato |-> Pilha_to_json(automato, FALSE), positions |-> positions]

\* AutomatoPilha.from_json of the snapshot's automaton, and its positions
restore_from_pda_snapshot(s, first) ==
    [automato |-> Pilha_from_json(s.automato, first),
     positions |-> s.positions]

\* _push_undo_snapshot: the snapshot of the automaton as it is now goes on
\* the undo stack unless it equals the top, and the redo stack is emptied
push_undo_snapshot(G, automato) ==
    LET snap == snapshot_of_pda(automato, G.positions)
        pushed == Append(G.undo_stack, snap)
    IN IF G.undo_stack = <<>> \/ G.undo_stack[Len(G.undo_stack)] # snap
       THEN [G EXCEPT !.undo_stack = IF Len(pushed) > UndoLimit
                                     THEN Tail(pushed) ELSE pushed,
                      !.redo_stack = <<>>]
       ELSE G

\* the session with the editor's automaton and window fields replaced
Edited(automato, G, op, args, val) ==
    /\ kind = "pilha"
    /\ pda' = automato
    /\ gui' = G
    /\ pre' = pda
    /\ ret' = Call(op, args, FALSE, val)
    /\ UNCHANGED <<kind, aut, moore>>

\* __init__: an empty automaton, whose snapshot is pushed
InitEditor ==
    /\ kind = "pilha"
    /\ aut = Automato
    /\ pda = AutomatoPilha
    /\ moore = MaquinaMoore
    /\ gui = push_undo_snapshot(NoGui, AutomatoPilha)
    /\ pre = pda
    /\ ret = Call("init", NoArgs, FALSE, FALSE)

\* room for one more snapshot
SnapshotRoom == Len(gui.undo_stack) + Len(gui.redo_stack) < MaxSnapshots

\* on_canvas_click in mode add_state
ClickAddState ==
    /\ SnapshotRoom
    /\ Cardinality(pda.states) < MaxEditorStates
    /\ \E point \in ClickPoints :
        LET s_name == "q" \o ToString(Cardinality(pda.states))
            G == push_undo_snapshot(gui, pda)
        IN Edited(Pilha_add_state(pda, s_name, FALSE, FALSE),
                  [G EXCEPT !.positions = Put(@, s_name, point)],
                  "add_state", <<s_name>>, TRUE)

\* on_canvas_click in mode set_start, on a state
ClickSetStart ==
    /\ SnapshotRoom
    /\ \E clicked_state \in pda.states :
        Edited([pda EXCEPT !.start_state = clicked_state],
               push_undo_snapshot(gui, pda),
               "set_start", <<clicked_state>>, TRUE)

\* on_canvas_click in mode toggle_final, on a state
ClickToggleFinal ==
    /\ SnapshotRoom
    /\ \E clicked_state \in pda.states :
        Edited([pda EXCEPT !.final_states =
                    IF clicked_state \in @ THEN @ \ {clicked_state}
                    ELSE @ \cup {clicked_state}],
               push_undo_snapshot(gui, pda),
               "toggle_final", <<clicked_state>>, TRUE)

\* on_canvas_click in mode delete_state, on a state, answered with yes
ClickDeleteState ==
    /\ SnapshotRoom
    /\ \E clicked_state \in pda.states :
        LET G == push_undo_snapshot(gui, pda) IN
        Edited(Pilha_remove_state(pda, clicked_state),
               [G EXCEPT !.positions = Del(@, clicked_state)],
               "delete_state", <<clicked_state>>, TRUE)

\* on_canvas_click in mode add_transition_dst, with a label typed
ClickAddTransition ==
    /\ SnapshotRoom
    /\ \E src \in pda.states, dst \in pda.states, label \in EditorLabels :
        Edited(Pilha_add_transition(pda, src, label[1], label[2], dst,
                                    label[3]),
               push_undo_snapshot(gui, pda),
               "add_transition", <<src, dst>>, TRUE)

\* the state from_json falls back on when the start state read is no state
FirstOf(s) ==
    IF s.automato.states = <<>> THEN {None}
    ELSE SetOfList(s.automato.states)

\* undo: with more than one snapshot on the undo stack, the top moves to the
\* redo stack and the snapshot below it is restored
Undo ==
    IF Len(gui.undo_stack) > 1
    THEN LET popped == SubSeq(gui.undo_stack, 1, Len(gui.undo_stack) - 1)
             top == gui.undo_stack[Len(gui.undo_stack)]
         IN \E first \in FirstOf(popped[Len(popped)]) :
             LET r == restore_from_pda_snapshot(popped[Len(popped)], first)
             IN Edited(r.automato,
                       [positions |-> r.positions, undo_stack |-> popped,
                        redo_stack |-> Append(gui.redo_stack, top)],
                       "undo", NoArgs, TRUE)
    ELSE Edited(pda, gui, "undo", NoArgs, FALSE)

\* redo: the top of the redo stack moves to the undo stack and is restored
Redo ==
    IF gui.redo_stack # <<>>
    THEN LET snap == gui.redo_stack[Len(gui.redo_stack)] IN
         \E first \in FirstOf(snap) :
             LET r == restore_from_pda_snapshot(snap, first) IN
             Edited(r.automato,
                    [positions |-> r.positions,
                     undo_stack |-> Append(gui.undo_stack, snap),
                     redo_stack |-> SubSeq(gui.redo_stack, 1,
                                           Len(gui.redo_stack) - 1)],
                    "redo", NoArgs, TRUE)
    ELSE Edited(pda, gui, "redo", NoArgs, FALSE)

NextEditor ==
    \/ ClickAddState
    \/ ClickSetStart
    \/ ClickToggleFinal
    \/ ClickDeleteState
    \/ ClickAddTransition
    \/ Undo
    \/ Redo

SpecEditor == InitEditor /\ [][NextEditor]_vars

EditOps ==
    {"add_state", "set_start", "toggle_final", "delete_state",
     "add_transition"}

\* C38: in the editor, an undo that follows an edit leaves the automaton as
\* it was just before that edit (so undo is available after the first
\* edit), and a redo that follows an undo leaves the automaton as it was
\* just before that undo
C38_UndoRestoresStateBeforeLastEdit ==
    [][/\ (ret.op \in EditOps /\ ret'.op = "undo") =>
            /\ pre # pda => ret'.val
            /\ pda' = pre
       /\ (ret.op = "undo" /\ ret'.op = "redo") => pda' = pre]_vars

(***************************************************************************)
(* Edits and queries of an Automato, in any order                          *)
(***************************************************************************)
QueryInputs == {"", "a", "ab"}

InitKeys == Init /\ kind = "automato"

\* epsilon_closure reads self.transitions with get()
QueryEpsilonClosure ==
    /\ kind = "automato"
    /\ \E states \in SUBSET StateNames :
        ret' = Call("epsilon_closure", <<states>>, FALSE,
                    epsilon_closure(aut, states))
    /\ pre' = aut
    /\ UNCHANGED <<gui, kind, aut, pda, moore>>

\* move reads self.transitions with get()
QueryMove ==
    /\ kind = "automato"
    /\ \E states \in SUBSET StateNames, symbol \in Symbols :
        ret' = Call("move", <<states, symbol>>, FALSE,
                    move(aut, states, symbol))
    /\ pre' = aut
    /\ UNCHANGED <<gui, kind, aut, pda, moore>>

\* simulate reads the keys of self.transitions and calls move and
\* epsilon_closure
QuerySimulate ==
    /\ kind = "automato"
    /\ \E input_str \in QueryInputs, order \in SymOrders :
        ret' = Call("simulate", <<input_str>>, FALSE,
                    simulate(aut, input_str, order))
    /\ pre' = aut
    /\ UNCHANGED <<gui, kind, aut, pda, moore>>

NextKeys ==
    \/ AddState
    \/ AddTransition
    \/ RemoveState
    \/ RenameState
    \/ RemoveTransition
    \/ QueryEpsilonClosure
    \/ QueryMove
    \/ QuerySimulate
    \/ IsDfa
    \/ ToDfa

SpecKeys == InitKeys /\ [][NextKeys]_vars

\* C39: whatever add_transition, remove_transition, remove_state,
\* rename_state and the queries simulate, epsilon_closure, move, is_dfa and
\* to_dfa have been called, every transition key of the Automato maps to a
\* non-empty set of destinations, and a query leaves the keys as they were
C39_NoKeyWithoutDestination ==
    /\ \A k \in DOMAIN aut.transitions : aut.transitions[k] # {}
    /\ ret.op \in {"simulate", "epsilon_closure", "move", "is_dfa", "to_dfa"}
        => aut = pre

\* the last destination of a key was removed and the key is gone, while
\* another key stays
C39_Witness ==
    /\ ret.op = "remove_transition"
    /\ \E k \in DOMAIN pre.transitions :
        /\ Cardinality(pre.transitions[k]) = 1
        /\ k \notin DOMAIN aut.transitions
    /\ DOMAIN aut.transitions # {}

====
